---------------------------- MODULE Spec2Model ----------------------------
(***************************************************************************)
(* Storyboard generator: the premise fetch (services/geminiService.ts) and *)
(* the asset-generation pipeline of the App component (types.ts).          *)
(*                                                                         *)
(* Strings the code only compares, looks up or concatenates are TLA+       *)
(* strings; text the code searches (the premise, error messages) is a      *)
(* sequence of tokens, one token per word or marker.  Array positions are  *)
(* 0-based as in the source: element k of a script is script[k + 1].       *)
(***************************************************************************)
EXTENDS Integers, Sequences, FiniteSets, TLC

VARIABLES
    isProcessing,      \* useState<boolean>(false)
    statusMessage,     \* useState<string>('')
    error,             \* useState<string | null>(null): None or a message
    userInput,         \* useState<string>
    storyElements,     \* useState<StoryElements | null>
    scriptData,        \* useState<Script | null>
    generatedImages,   \* useState<GeneratedImage[]>
    generatedAudio,    \* useState<GeneratedAudio[]>
    characterImages,   \* useState<Record<string, CharacterImage>>: name -> payload
    pc,                \* where the running handler is suspended ("idle": none)
    script,            \* handleGenerate: const script
    images,            \* handleGenerate: const images (the local list)
    lastCharacter,     \* handleGenerate: let lastCharacter
    imgI,              \* handleGenerate: the image loop's i
    audioClips,        \* handleGenerate: const audioClips (the local list)
    audI,              \* handleGenerate: the speech loop's i
    characterVoices,   \* handleGenerate: const characterVoices
    assignedGenders,   \* handleGenerate: const assignedGenders
    maleVoiceIndex,    \* handleGenerate: let maleVoiceIndex
    femaleVoiceIndex,  \* handleGenerate: let femaleVoiceIndex
    outstanding,       \* external requests issued and not yet settled
    requests,          \* every external request the current run has issued, in order
    feeds,             \* fetchStoryElements: the three promises, by feed name
    vBlocks,           \* voice assignment alone: characters of the blocks processed
    prevVoices,        \* voice assignment alone: the table before the run was repeated
    vEarlier,          \* voice assignment alone: the cursors the run before ended with
    wavPcm,            \* WAV encoding alone: const pcmData (its length)
    wavBlob,           \* WAV encoding alone: const audioBlob
    zip,               \* handleDownloadZip: const zip (path -> content)
    download,          \* the file the browser was handed: name and content
    reads,             \* handleCharacterImageUpload: const promises (file, state)
    newImages          \* handleCharacterImageUpload: const newImages

vars == << isProcessing, statusMessage, error, userInput, storyElements,
           scriptData, generatedImages, generatedAudio, characterImages, pc,
           script, images, lastCharacter, imgI, audioClips, audI,
           characterVoices, assignedGenders, maleVoiceIndex, femaleVoiceIndex,
           outstanding, requests, feeds, vBlocks, prevVoices, vEarlier,
           wavPcm, wavBlob, zip, download, reads, newImages >>

\* undefined, for a string-valued lookup
None == "<undefined>"

\* null of a nullable state (T | null): Null, or Some(v)
Null == << >>

Some(v) == << v >>

(***************************************************************************)
(* Bounds of the model.                                                    *)
(***************************************************************************)
MaxScene == 3       \* longest script generateStory returns
MaxBlocks == 5      \* longest dialogue-block list of the voice specification

(***************************************************************************)
(* Generic helpers.                                                        *)
(***************************************************************************)
Range(s) == { s[k] : k \in 1..Len(s) }

SeqsUpTo(S, n) == UNION { [1..k -> S] : k \in 0..n }

EmptyMap == [ k \in {} |-> "" ]

\* obj[key] of a plain object used as a map: undefined (None) when absent.
Get(obj, key) == IF key \in DOMAIN obj THEN obj[key] ELSE None

\* obj[key] = val
Put(obj, key, val) == [ k \in (DOMAIN obj) \cup {key} |->
                          IF k = key THEN val ELSE obj[k] ]

(***************************************************************************)
(* Strings: case folding and capitalising, on the strings of the model.    *)
(***************************************************************************)
ToLowerCase(s) ==
    CASE s = "URSULA" -> "ursula"
      [] s = "Ursula" -> "ursula"
      [] s = "REX"    -> "rex"
      [] s = "BOB"    -> "bob"
      [] s = "ZED"    -> "zed"
      [] s = "KAI"    -> "kai"
      [] s = "(M)"    -> "(m)"
      [] s = "(F)"    -> "(f)"
      [] s = "M"      -> "m"
      [] s = "F"      -> "f"
      [] s = "A character" -> "a character"
      [] OTHER        -> s

\* feedName.charAt(0).toUpperCase() + feedName.slice(1)
Capitalize(s) ==
    CASE s = "characters" -> "Characters"
      [] s = "story"      -> "Story"
      [] s = "today"      -> "Today"
      [] OTHER            -> s

\* String.prototype.trim: the modelled names carry no outer white space,
\* the modelled ideas are "" (empty), "  " (blank) and a real idea.
Trim(s) == IF s = "  " THEN "" ELSE s

(***************************************************************************)
(* Script model (types.ts, lines 19-56).                                   *)
(***************************************************************************)
ActionEl(text) ==
    [ type |-> "action", content |-> text, character |-> None, elements |-> << >> ]

HeadingEl(text) ==
    [ type |-> "scene_heading", content |-> text, character |-> None,
      elements |-> << >> ]

DialogueEl(who, lines) ==
    [ type |-> "dialogue_block", content |-> None, character |-> who,
      elements |-> lines ]

Spoken == << [ type |-> "dialogue", content |-> "Hello" ] >>

Toned == << [ type |-> "parenthetical", content |-> "angry" ],
            [ type |-> "dialogue", content |-> "Hello" ] >>

Silent == << [ type |-> "dialogue", content |-> "" ] >>

\* The scene elements generateStory may return.
SceneElements ==
    { ActionEl("She runs."), ActionEl(""), HeadingEl("INT. LAB"),
      DialogueEl("URSULA", Spoken), DialogueEl("URSULA", Silent),
      DialogueEl("Ursula", Toned), DialogueEl("REX", Spoken) }

Scripts == SeqsUpTo(SceneElements, MaxScene)

\* Character names of the voice specification's dialogue blocks.
Characters == { "URSULA", "Ursula", "REX", "BOB", "ZED", "KAI" }

\* The `characters` text of the premise, one token per word or marker.
Premises ==
    { << "URSULA", "(f)", "and", "rex", "(M)" >>,
      << "URSULA", "(m)", "then", "URSULA", "(f)" >>,
      << "URSULA", "(f)", "then", "URSULA", "(m)", "REX", "(f)" >>,
      << "URSULA", "and", "REX", "with", "kai", "(F)" >> }

(***************************************************************************)
(* Speaker attribution (types.ts, lines 242-252).                          *)
(***************************************************************************)
\* JavaScript truthiness of an optional string
Truthy(str) == str # "" /\ str # None

IsAction(el) == el.type = "action" /\ Truthy(el.content)

IsDialogue(el) == el.type = "dialogue_block"

\* script.scene_elements.map((el, index) => ({el, index}))
Indexed(sc) == [ k \in 1..Len(sc) |-> [ el |-> sc[k], index |-> k - 1 ] ]

IsActionEntry(e) == IsAction(e.el)

IsDialogueEntry(e) == IsDialogue(e.el)

\* the positions taken after filtering: filter(...).map((el, index) => ...)
ScenesWithActionRenumbered(sc) ==
    LET kept == SelectSeq(sc, IsAction)
    IN  [ k \in 1..Len(kept) |-> [ el |-> kept[k], index |-> k - 1 ] ]

\* const scenesWithAction: the Action elements with content, with their positions
ScenesWithAction(sc) == SelectSeq(Indexed(sc), IsActionEntry)

\* const dialogueBlocks: the DialogueBlocks, with their positions
DialogueBlocks(sc) == SelectSeq(Indexed(sc), IsDialogueEntry)

\* as LastDialogue, taking the first dialogue block of the prefix (shift for pop)
LastDialogueFirst(sc, sceneIndex) ==
    LET precedingElements == SubSeq(sc, 1, sceneIndex)
        found == SelectSeq(precedingElements, IsDialogue)
    IN  IF found = << >> THEN Null ELSE Some(found[1])

\* script.scene_elements.slice(0, sceneIndex).filter(dialogue_block).pop()
LastDialogue(sc, sceneIndex) ==
    LET precedingElements == SubSeq(sc, 1, sceneIndex)
        found == SelectSeq(precedingElements, IsDialogue)
    IN  IF found = << >> THEN Null ELSE Some(found[Len(found)])

\* as NextSpeaker, with no carried-over speaker when no dialogue precedes
NextSpeakerNoCarry(carried, sc, sceneIndex) ==
    LET found == SelectSeq(SubSeq(sc, 1, sceneIndex), IsDialogue)
    IN  IF found # << >> THEN found[Len(found)].character ELSE ""

\* as NextSpeaker, the element just before the Action left out of the prefix
NextSpeakerShortPrefix(carried, sc, sceneIndex) ==
    LET found == SelectSeq(SubSeq(sc, 1, sceneIndex - 1), IsDialogue)
    IN  IF found # << >> THEN found[Len(found)].character ELSE carried

\* if (lastDialogue) lastCharacter = lastDialogue.character
NextSpeaker(carried, sc, sceneIndex) ==
    LET lastDialogue == LastDialogue(sc, sceneIndex)
    IN  IF lastDialogue # Null THEN lastDialogue[1].character ELSE carried

UnknownSpeaker == "A character"

(***************************************************************************)
(* Voice assignment (types.ts, lines 81-82 and 275-303).                   *)
(***************************************************************************)
MALE_VOICES == << "Puck", "Charon", "Fenrir", "Zephyr" >>

FEMALE_VOICES == << "Kore" >>

GenderMarkers == { "(m)", "(f)", "(M)", "(F)" }

\* the text the group (m|f) captured
Captured(marker) ==
    CASE marker = "(m)" -> "m"
      [] marker = "(M)" -> "M"
      [] marker = "(f)" -> "f"
      [] marker = "(F)" -> "F"

\* new RegExp(`\\b${characterName}\\b\\s*\\((m|f)\\)`, 'i'): where it matches
GenderRegex(characterName, text) ==
    { j \in 1..(Len(text) - 1) :
        /\ ToLowerCase(text[j]) = ToLowerCase(characterName)
        /\ text[j + 1] \in GenderMarkers }

\* text.match(genderRegex): group 1 of the leftmost match, or None
Match(characterName, text) ==
    LET at == GenderRegex(characterName, text)
    IN  IF at = {} THEN None
        ELSE Captured(text[(CHOOSE j \in at : \A k \in at : j <= k) + 1])

\* as VoiceInit, the two cursors living on from the run before
VoiceInitKeepCursors ==
    [ characterVoices |-> EmptyMap, assignedGenders |-> EmptyMap,
      maleVoiceIndex |-> maleVoiceIndex, femaleVoiceIndex |-> femaleVoiceIndex ]

\* locals that live on from the run before: table, gender cache and cursors
VoiceInitKeepTable ==
    [ characterVoices |-> characterVoices, assignedGenders |-> assignedGenders,
      maleVoiceIndex |-> maleVoiceIndex, femaleVoiceIndex |-> femaleVoiceIndex ]

\* the locals of one assignment run, as declared
VoiceInit ==
    [ characterVoices |-> EmptyMap, assignedGenders |-> EmptyMap,
      maleVoiceIndex |-> 0, femaleVoiceIndex |-> 0 ]

\* assignedGenders after the gender lookup of one character
InferGender(genders, characterName, text) ==
    IF Get(genders, characterName) = None
    THEN LET match == Match(characterName, text)
         IN  IF match # None
             THEN Put(genders, characterName,
                      IF ToLowerCase(match) = "m" THEN "male" ELSE "female")
             ELSE genders
    ELSE genders

\* one block's assignment with the guard on characterVoices left out
VoiceStepReassign(vs, characterName, text) ==
    LET genders == InferGender(vs.assignedGenders, characterName, text)
        gender == Get(genders, characterName)
    IN  IF gender = "female" /\ Len(FEMALE_VOICES) > 0
        THEN [ vs EXCEPT
                 !.assignedGenders = genders,
                 !.characterVoices =
                     Put(@, characterName,
                         FEMALE_VOICES[(vs.femaleVoiceIndex % Len(FEMALE_VOICES)) + 1]),
                 !.femaleVoiceIndex = @ + 1 ]
        ELSE [ vs EXCEPT
                 !.assignedGenders = genders,
                 !.characterVoices =
                     Put(@, characterName,
                         MALE_VOICES[(vs.maleVoiceIndex % Len(MALE_VOICES)) + 1]),
                 !.maleVoiceIndex = @ + 1 ]

\* one block's assignment with the male cursor never advanced
VoiceStepNoAdvance(vs, characterName, text) ==
    IF Get(vs.characterVoices, characterName) # None THEN vs
    ELSE LET genders == InferGender(vs.assignedGenders, characterName, text)
             gender == Get(genders, characterName)
         IN  IF gender = "female" /\ Len(FEMALE_VOICES) > 0
             THEN [ vs EXCEPT
                      !.assignedGenders = genders,
                      !.characterVoices =
                          Put(@, characterName,
                              FEMALE_VOICES[(vs.femaleVoiceIndex % Len(FEMALE_VOICES)) + 1]),
                      !.femaleVoiceIndex = @ + 1 ]
             ELSE [ vs EXCEPT
                      !.assignedGenders = genders,
                      !.characterVoices =
                          Put(@, characterName,
                              MALE_VOICES[(vs.maleVoiceIndex % Len(MALE_VOICES)) + 1]) ]

\* one block's assignment with both cursors advanced by a female assignment
VoiceStepBothAdvance(vs, characterName, text) ==
    IF Get(vs.characterVoices, characterName) # None THEN vs
    ELSE LET genders == InferGender(vs.assignedGenders, characterName, text)
             gender == Get(genders, characterName)
         IN  IF gender = "female" /\ Len(FEMALE_VOICES) > 0
             THEN [ vs EXCEPT
                      !.assignedGenders = genders,
                      !.characterVoices =
                          Put(@, characterName,
                              FEMALE_VOICES[(vs.femaleVoiceIndex % Len(FEMALE_VOICES)) + 1]),
                      !.femaleVoiceIndex = @ + 1,
                      !.maleVoiceIndex = @ + 1 ]
             ELSE [ vs EXCEPT
                      !.assignedGenders = genders,
                      !.characterVoices =
                          Put(@, characterName,
                              MALE_VOICES[(vs.maleVoiceIndex % Len(MALE_VOICES)) + 1]),
                      !.maleVoiceIndex = @ + 1 ]

\* the body of dialogueBlocks.forEach, for one block of character characterName
VoiceStep(vs, characterName, text) ==
    IF Get(vs.characterVoices, characterName) # None THEN vs
    ELSE LET genders == InferGender(vs.assignedGenders, characterName, text)
             gender == Get(genders, characterName)
         IN  IF gender = "female" /\ Len(FEMALE_VOICES) > 0
             THEN [ vs EXCEPT
                      !.assignedGenders = genders,
                      !.characterVoices =
                          Put(@, characterName,
                              FEMALE_VOICES[(vs.femaleVoiceIndex % Len(FEMALE_VOICES)) + 1]),
                      !.femaleVoiceIndex = @ + 1 ]
             ELSE [ vs EXCEPT
                      !.assignedGenders = genders,
                      !.characterVoices =
                          Put(@, characterName,
                              MALE_VOICES[(vs.maleVoiceIndex % Len(MALE_VOICES)) + 1]),
                      !.maleVoiceIndex = @ + 1 ]

RECURSIVE AssignFrom(_, _, _)
\* dialogueBlocks.forEach(...) from the locals vs, over the blocks' characters
AssignFrom(vs, names, text) ==
    IF names = << >> THEN vs
    ELSE AssignFrom(VoiceStep(vs, Head(names), text), Tail(names), text)

\* one whole assignment: fresh locals, then the forEach
AssignVoices(names, text) == AssignFrom(VoiceInit, names, text)

\* the characters of the script's dialogue blocks, in document order
BlockCharacters(sc) ==
    LET blocks == DialogueBlocks(sc)
    IN  [ k \in 1..Len(blocks) |-> blocks[k].el.character ]

(***************************************************************************)
(* Premise feeds (services/geminiService.ts, lines 12-103).                *)
(***************************************************************************)
\* Object.keys(feedUrls)
FeedNames == << "characters", "story", "today" >>

\* the values of dayMap: what getDailyVariable may return
DailyVariables == { "28", "27", "21", "22", "18", "24", "25" }

\* feedUrls[name], x being the daily variable
FeedUrl(x, name) ==
    << "https://www.htmlcommentbox.com/rss_clean?page=https%3A%2F%2Fvgy.rf.gd%2F",
       x, "%2F%3Fi%3D", name, "&opts=", "16798",
       "&mod=$1$wq1rdBcg$ir4fsMQfu76bjx/maFJMv/" >>

\* the errors thrown inside fetchDescriptionFromRSS's try block
HttpError(status) == << "Network response was not ok, status: ", status >>

ParseError == << "Failed to parse the RSS feed XML." >>

NoItemsError == << "No <item> elements found in the RSS feed." >>

NoSeedError == << "No valid story seed found in any of the RSS items." >>

InnerErrors == { HttpError("503"), ParseError, NoItemsError, NoSeedError }

\* the story seed a feed's first valid item holds
FeedTexts(name) ==
    IF name = "characters" THEN Premises
    ELSE IF name = "story" THEN { << "A", "crew", "adrift" >> }
    ELSE { << "Laundry", "day" >> }

\* a feed's promise before fetchStoryElements has been called
NoFeed == [ status |-> "none", url |-> << >>, value |-> << >>, cause |-> << >> ]

\* the catch block of fetchDescriptionFromRSS: what the promise rejects with
RssRejection(url, cause) ==
    << "Could not fetch or parse from " >> \o url
      \o << ". The source might be unavailable or blocked." >>

\* fetchDescriptionFromRSS(url) settling, with the seed found or the error caught
RssSettle(feed, ok, payload) ==
    IF ok
    THEN [ feed EXCEPT !.status = "fulfilled", !.value = payload ]
    ELSE [ feed EXCEPT !.status = "rejected",
                       !.value = RssRejection(feed.url, payload),
                       !.cause = payload ]

\* a fail-fast join (Promise.all): resumes at the first rejection
AllSettledFailFast(fs) ==
    \/ \E k \in 1..Len(FeedNames) : fs[FeedNames[k]].status = "rejected"
    \/ \A k \in 1..Len(FeedNames) : fs[FeedNames[k]].status = "fulfilled"

\* await Promise.allSettled(promises): resumes once no promise is pending
AllSettled(fs) == \A k \in 1..Len(FeedNames) : fs[FeedNames[k]].status # "pending"

\* one element of failedFeeds
FailedEntry(name, reason) == << "'", Capitalize(name), "' feed: " >> \o reason

RECURSIVE FailedFrom(_, _)
\* results.forEach(...) from feed k on: the failedFeeds pushed, in feed order
FailedFrom(fs, k) ==
    IF k > Len(FeedNames) THEN << >>
    ELSE LET name == FeedNames[k]
             rest == FailedFrom(fs, k + 1)
         IN  IF fs[name].status = "fulfilled" THEN rest
             ELSE << FailedEntry(name, fs[name].value) >> \o rest

FailedFeeds(fs) == FailedFrom(fs, 1)

EntrySeparator == "\n- "

RECURSIVE Join(_, _)
\* Array.prototype.join
Join(parts, sep) ==
    IF parts = << >> THEN << >>
    ELSE IF Len(parts) = 1 THEN parts[1]
    ELSE parts[1] \o << sep >> \o Join(Tail(parts), sep)

FeedErrorHead ==
    "Could not fetch all story elements. Please check your connection or try again later. \n\nFailed feeds:\n- "

DetailedErrorMessage(failedFeeds) ==
    << FeedErrorHead >> \o Join(failedFeeds, EntrySeparator)

\* successfulResults as StoryElements
SuccessfulResults(fs) ==
    [ characters |-> fs["characters"].value, story |-> fs["story"].value,
      today |-> fs["today"].value ]

\* fetchStoryElements after the join: the elements, or the error thrown
FetchStoryElements(fs) ==
    LET failedFeeds == FailedFeeds(fs)
    IN  IF Len(failedFeeds) > 0
        THEN [ ok |-> FALSE, elements |-> Null,
               message |-> DetailedErrorMessage(failedFeeds) ]
        ELSE [ ok |-> TRUE, elements |-> Some(SuccessfulResults(fs)),
               message |-> << >> ]

(***************************************************************************)
(* Audio helpers (types.ts, lines 83-124).  A base64 string is modelled by *)
(* its length and padding, a byte buffer by its length.                    *)
(***************************************************************************)
SAMPLE_RATE == 24000

\* decode(base64): the bytes atob yields
Decode(base64) == (base64.chars \div 4) * 3 - base64.pad

\* DataView.setUint16(offset, value, true): the two bytes, low byte first
SetUint16(value) == << value % 256, (value \div 256) % 256 >>

\* DataView.setUint32(offset, value, littleEndian): the four bytes written
SetUint32(value, littleEndian) ==
    LET b0 == value % 256
        b1 == (value \div 256) % 256
        b2 == (value \div 65536) % 256
        b3 == (value \div 16777216) % 256
    IN  IF littleEndian THEN << b0, b1, b2, b3 >> ELSE << b3, b2, b1, b0 >>

\* pcmToWav with the sizes written without the little-endian flag
PcmToWavBigEndianSizes(pcmLength, sampleRate, numChannels, bitsPerSample) ==
    LET byteRate == sampleRate * numChannels * (bitsPerSample \div 8)
        blockAlign == numChannels * (bitsPerSample \div 8)
        dataSize == pcmLength
        fileSize == 36 + dataSize
    IN  [ header |->
            SetUint32(1380533830, FALSE) \o SetUint32(fileSize, FALSE)
              \o SetUint32(1463899717, FALSE)
              \o SetUint32(1718449184, FALSE) \o SetUint32(16, TRUE)
              \o SetUint16(1) \o SetUint16(numChannels)
              \o SetUint32(sampleRate, TRUE) \o SetUint32(byteRate, TRUE)
              \o SetUint16(blockAlign) \o SetUint16(bitsPerSample)
              \o SetUint32(1684108385, FALSE) \o SetUint32(dataSize, FALSE),
          payload |-> pcmLength, type |-> "audio/wav" ]

\* pcmToWav: the 44 header bytes in the order of their offsets, and the
\* payload behind them (bitsPerSample is a multiple of 8 in every call)
PcmToWav(pcmLength, sampleRate, numChannels, bitsPerSample) ==
    LET byteRate == sampleRate * numChannels * (bitsPerSample \div 8)
        blockAlign == numChannels * (bitsPerSample \div 8)
        dataSize == pcmLength
        fileSize == 36 + dataSize
    IN  [ header |->
            SetUint32(1380533830, FALSE) \o SetUint32(fileSize, TRUE)
              \o SetUint32(1463899717, FALSE)
              \o SetUint32(1718449184, FALSE) \o SetUint32(16, TRUE)
              \o SetUint16(1) \o SetUint16(numChannels)
              \o SetUint32(sampleRate, TRUE) \o SetUint32(byteRate, TRUE)
              \o SetUint16(blockAlign) \o SetUint16(bitsPerSample)
              \o SetUint32(1684108385, FALSE) \o SetUint32(dataSize, TRUE),
          payload |-> pcmLength, type |-> "audio/wav" ]

\* the audio payload the speech service returns (base64): one 16-bit sample
SpeechPayloads == { [ chars |-> 4, pad |-> 1 ] }

(***************************************************************************)
(* External requests.                                                      *)
(***************************************************************************)
Request(kind, sceneIndex, character, text, voice, reference) ==
    [ kind |-> kind, sceneIndex |-> sceneIndex, character |-> character,
      text |-> text, voice |-> voice, reference |-> reference ]

\* constructFinalPrompt(storyElements, userInput)
ConstructFinalPrompt(elements, inspirationalEvent) ==
    << "**Characters:**" >> \o elements.characters
      \o << "**Core Story:**" >> \o elements.story
      \o << "**Daily Theme:**" >> \o elements.today
      \o << "**Inspirational Event (Provided by User):**", inspirationalEvent >>

\* the text the prompt model answers with
DerivedPrompt == << "A woman sprints down a neon corridor." >>

\* a fallback that drops the speaker
ImagePromptTextActionOnly(ok, character, action) ==
    IF ok THEN DerivedPrompt ELSE << action >>

\* createImagePromptFromAction's result: the model's text, or the catch block's
ImagePromptText(ok, character, action) ==
    IF ok THEN DerivedPrompt ELSE << character, " ", action >>

\* characterImages[lastCharacter.toLowerCase().trim()]
CharacterImageKey(character) == Trim(ToLowerCase(character))

FinalImagePrompt(hasImage, imagePromptText) ==
    IF hasImage
    THEN << "Use the character from the input image. Place them in this scene, matching the existing art style: " >>
           \o imagePromptText
    ELSE imagePromptText

\* el.elements.find(e => e.type === kind)?.content, None when there is none
FindContent(elements, kind) ==
    LET at == { k \in 1..Len(elements) : elements[k].type = kind }
    IN  IF at = {} THEN None
        ELSE elements[CHOOSE k \in at : \A j \in at : k <= j].content

\* const dialogueText = ... || ''
DialogueText(el) ==
    LET found == FindContent(el.elements, "dialogue")
    IN  IF Truthy(found) THEN found ELSE ""

\* const promptText
PromptText(el) ==
    LET parenthetical == FindContent(el.elements, "parenthetical")
    IN  IF Truthy(parenthetical)
        THEN << "(speaking in a ", parenthetical, " tone) ", DialogueText(el) >>
        ELSE << DialogueText(el) >>

(***************************************************************************)
(* Messages.                                                               *)
(***************************************************************************)
NoError == << >>

NoStatus == << >>

IdeaMissing == << "Please provide a story idea to get started." >>

PremiseMissing == << "Story premise not loaded. Please fetch it first." >>

StoryError ==
    << "Could not generate a story. The model might have returned an invalid response or malformed JSON." >>

ImageError(prompt, reason) ==
    << "Failed to generate image for prompt: \"" >> \o prompt
      \o << "\". Reason: ", reason >>

SpeechError(text) ==
    << "Failed to generate speech for text: \"" >> \o text \o << "\"" >>

(***************************************************************************)
(* handleGenerate (types.ts, lines 213-332).  The handler runs from one    *)
(* await to the next in one step; Run is the state it reads and writes,    *)
(* and the operators below are the stretches of code between two awaits.   *)
(***************************************************************************)
Run ==
    [ isProcessing |-> isProcessing, statusMessage |-> statusMessage,
      error |-> error, scriptData |-> scriptData,
      generatedImages |-> generatedImages, generatedAudio |-> generatedAudio,
      pc |-> pc, script |-> script, images |-> images,
      lastCharacter |-> lastCharacter, imgI |-> imgI,
      audioClips |-> audioClips, audI |-> audI,
      characterVoices |-> characterVoices, assignedGenders |-> assignedGenders,
      maleVoiceIndex |-> maleVoiceIndex, femaleVoiceIndex |-> femaleVoiceIndex,
      outstanding |-> outstanding, requests |-> requests ]

\* the handler's state becomes r
Becomes(r) ==
    /\ isProcessing' = r.isProcessing
    /\ statusMessage' = r.statusMessage
    /\ error' = r.error
    /\ scriptData' = r.scriptData
    /\ generatedImages' = r.generatedImages
    /\ generatedAudio' = r.generatedAudio
    /\ pc' = r.pc
    /\ script' = r.script
    /\ images' = r.images
    /\ lastCharacter' = r.lastCharacter
    /\ imgI' = r.imgI
    /\ audioClips' = r.audioClips
    /\ audI' = r.audI
    /\ characterVoices' = r.characterVoices
    /\ assignedGenders' = r.assignedGenders
    /\ maleVoiceIndex' = r.maleVoiceIndex
    /\ femaleVoiceIndex' = r.femaleVoiceIndex
    /\ outstanding' = r.outstanding
    /\ requests' = r.requests

\* the handler's locals outside a run: none is alive
NoLocals(r) ==
    [ r EXCEPT !.script = << >>, !.images = << >>,
               !.lastCharacter = UnknownSpeaker, !.imgI = 0,
               !.audioClips = << >>, !.audI = 0,
               !.characterVoices = EmptyMap, !.assignedGenders = EmptyMap,
               !.maleVoiceIndex = 0, !.femaleVoiceIndex = 0 ]

\* a finally block that leaves the status message standing
FinallyNoClear(r) == NoLocals([ r EXCEPT !.isProcessing = FALSE, !.pc = "idle" ])

\* the finally block, and the handler returning
Finally(r) ==
    NoLocals([ r EXCEPT !.isProcessing = FALSE, !.statusMessage = NoStatus,
                        !.pc = "idle" ])

\* a catch block that swallows the error
CaughtNoError(r, message) == Finally(r)

\* a catch block that stores the images made so far
CaughtKeepsImages(r, message) ==
    Finally([ r EXCEPT !.error = message, !.generatedImages = r.images ])

\* a catch block that stores the clips made so far
CaughtKeepsClips(r, message) ==
    Finally([ r EXCEPT !.error = message, !.generatedAudio = r.audioClips ])

\* the catch block, then the finally block
Caught(r, message) == Finally([ r EXCEPT !.error = message ])

\* an external call being made, the handler suspending at `at`
Issue(r, req, at) ==
    [ r EXCEPT !.outstanding = @ \cup { req }, !.requests = Append(@, req),
               !.pc = at ]

\* generateSpeech(promptText, characterVoices[el.character])
SpeechRequest(r, block) ==
    Request("speech", block.index, block.el.character, PromptText(block.el),
            Get(r.characterVoices, block.el.character), None)

\* a speech loop that asks for the speech of a block without dialogue text too
SpeechLoopNoSkip(r) ==
    LET dialogueBlocks == DialogueBlocks(r.script)
    IN  IF r.audI < Len(dialogueBlocks)
        THEN LET block == dialogueBlocks[r.audI + 1]
                 status == << "Generating audio for ", block.el.character,
                              ToString(r.audI + 1), ToString(Len(dialogueBlocks)) >>
             IN  Issue([ r EXCEPT !.statusMessage = status ],
                       SpeechRequest(r, block), "speech")
        ELSE Finally([ r EXCEPT !.generatedAudio = r.audioClips ])

RECURSIVE SpeechLoop(_)
\* the speech loop from its head, at block r.audI, up to the next await or the end
SpeechLoop(r) ==
    LET dialogueBlocks == DialogueBlocks(r.script)
    IN  IF r.audI < Len(dialogueBlocks)
        THEN LET block == dialogueBlocks[r.audI + 1]
                 status == << "Generating audio for ", block.el.character,
                              ToString(r.audI + 1), ToString(Len(dialogueBlocks)) >>
             IN  IF DialogueText(block.el) = ""
                 THEN SpeechLoop([ r EXCEPT !.statusMessage = status,
                                            !.audI = @ + 1 ])
                 ELSE Issue([ r EXCEPT !.statusMessage = status ],
                            SpeechRequest(r, block), "speech")
        ELSE Finally([ r EXCEPT !.generatedAudio = r.audioClips ])

\* lines 271-305: the dialogue blocks, the voice assignment, then the speech loop
SpeechStage(r) ==
    LET vs == AssignVoices(BlockCharacters(r.script),
                           storyElements[1].characters)
    IN  SpeechLoop([ r EXCEPT !.characterVoices = vs.characterVoices,
                              !.assignedGenders = vs.assignedGenders,
                              !.maleVoiceIndex = vs.maleVoiceIndex,
                              !.femaleVoiceIndex = vs.femaleVoiceIndex,
                              !.audioClips = << >>, !.audI = 0 ])

\* an image loop that asks for the prompts of all remaining actions at once
ImageLoopAll(r) ==
    LET scenesWithAction == ScenesWithAction(r.script)
        left == Len(scenesWithAction) - r.imgI
        asked == [ k \in 1..left |->
                     LET scene == scenesWithAction[r.imgI + k]
                     IN  Request("prompt", scene.index,
                                 NextSpeaker(r.lastCharacter, r.script, scene.index),
                                 << scene.el.content >>, None, None) ]
    IN  IF left > 0
        THEN [ r EXCEPT !.lastCharacter = asked[1].character,
                        !.outstanding = @ \cup Range(asked),
                        !.requests = @ \o asked, !.pc = "prompt" ]
        ELSE SpeechStage([ r EXCEPT !.generatedImages = r.images ])

\* an image loop that stops one action early
ImageLoopEarlyExit(r) ==
    LET scenesWithAction == ScenesWithAction(r.script)
    IN  IF r.imgI < Len(scenesWithAction) - 1
        THEN LET scene == scenesWithAction[r.imgI + 1]
                 speaker == NextSpeaker(r.lastCharacter, r.script, scene.index)
             IN  Issue([ r EXCEPT
                           !.lastCharacter = speaker,
                           !.statusMessage =
                               << "Creating image prompt ", ToString(r.imgI + 1),
                                  ToString(Len(scenesWithAction)) >> ],
                       Request("prompt", scene.index, speaker,
                               << scene.el.content >>, None, None),
                       "prompt")
        ELSE SpeechStage([ r EXCEPT !.generatedImages = r.images ])

\* the image loop from its head, at action r.imgI, up to the next await
ImageLoop(r) ==
    LET scenesWithAction == ScenesWithAction(r.script)
    IN  IF r.imgI < Len(scenesWithAction)
        THEN LET scene == scenesWithAction[r.imgI + 1]
                 speaker == NextSpeaker(r.lastCharacter, r.script, scene.index)
             IN  Issue([ r EXCEPT
                           !.lastCharacter = speaker,
                           !.statusMessage =
                               << "Creating image prompt ", ToString(r.imgI + 1),
                                  ToString(Len(scenesWithAction)) >> ],
                       Request("prompt", scene.index, speaker,
                               << scene.el.content >>, None, None),
                       "prompt")
        ELSE SpeechStage([ r EXCEPT !.generatedImages = r.images ])

\* lines 239-247: the script arrived
ScriptArrived(r, sc) ==
    ImageLoop([ r EXCEPT !.scriptData = Some(sc), !.script = sc,
                         !.lastCharacter = UnknownSpeaker, !.images = << >>,
                         !.imgI = 0 ])

\* lines 257-262: the prompt text arrived, the image is asked for
PromptArrived(r, req, ok) ==
    LET key == CharacterImageKey(r.lastCharacter)
        hasImage == key \in DOMAIN characterImages
        imagePromptText == ImagePromptText(ok, req.character, req.text[1])
        scenesWithAction == ScenesWithAction(r.script)
    IN  Issue([ r EXCEPT !.statusMessage =
                             << "Generating image ", ToString(r.imgI + 1),
                                ToString(Len(scenesWithAction)) >> ],
              Request("image", req.sceneIndex, req.character,
                      FinalImagePrompt(hasImage, imagePromptText), None,
                      IF hasImage THEN characterImages[key].base64 ELSE None),
              "image")

\* images.unshift instead of images.push
ImageArrivedPrepend(r, req, imageBase64) ==
    ImageLoop([ r EXCEPT
                  !.images = << [ sceneIndex |-> req.sceneIndex,
                                  imageUrl |-> << "data:image/png;base64,",
                                                  imageBase64 >> ] >> \o @,
                  !.imgI = @ + 1 ])

\* lines 263-267: the image arrived, the loop goes on
ImageArrived(r, req, imageBase64) ==
    ImageLoop([ r EXCEPT
                  !.images = Append(@, [ sceneIndex |-> req.sceneIndex,
                                         imageUrl |-> << "data:image/png;base64,",
                                                         imageBase64 >> ]),
                  !.imgI = @ + 1 ])

\* lines 317-321: the audio arrived, the loop goes on
SpeechArrived(r, req, audioBase64) ==
    LET block == DialogueBlocks(r.script)[r.audI + 1]
        pcmData == Decode(audioBase64)
        audioBlob == PcmToWav(pcmData, SAMPLE_RATE, 1, 16)
        duration == << pcmData, SAMPLE_RATE * 2 >>
    IN  SpeechLoop([ r EXCEPT
                       !.audioClips =
                           Append(@, [ sceneIndex |-> block.index,
                                       audioBlob |-> audioBlob,
                                       duration |-> duration,
                                       character |-> block.el.character,
                                       dialogue |-> DialogueText(block.el) ]),
                       !.audI = @ + 1 ])

\* lines 223-238: the run starts and asks for the script
Started(r) ==
    Issue([ r EXCEPT !.isProcessing = TRUE, !.error = NoError,
                     !.scriptData = Null, !.generatedImages = << >>,
                     !.generatedAudio = << >>,
                     !.statusMessage = << "Generating movie script..." >>,
                     !.outstanding = {}, !.requests = << >> ],
          Request("story", 0 - 1, None,
                  ConstructFinalPrompt(storyElements[1], userInput), None, None),
          "story")

(***************************************************************************)
(* The handlers as actions.  A handler starts only while none is running:  *)
(* the controls are disabled while isProcessing (lines 427, 455, 475-483,  *)
(* 510-515).                                                               *)
(***************************************************************************)
RealIdea == "A celebrity launches a car into orbit."

\* what may be typed into the textarea
Ideas == { "  ", RealIdea }

\* a reference image as handleCharacterImageUpload stores it
ReferenceImage == [ base64 |-> "UklGR", mimeType |-> "image/png" ]

NoImages == [ k \in {} |-> ReferenceImage ]

UrsulaImage == [ k \in { "ursula" } |-> ReferenceImage ]

\* the premise a successful fetch has stored
LoadedPremises ==
    { Some([ characters |-> c, story |-> s, today |-> t ]) :
        c \in FeedTexts("characters"), s \in FeedTexts("story"),
        t \in FeedTexts("today") }

genVars == << isProcessing, statusMessage, error, scriptData, generatedImages,
              generatedAudio, pc, script, images, lastCharacter, imgI,
              audioClips, audI, characterVoices, assignedGenders,
              maleVoiceIndex, femaleVoiceIndex, outstanding, requests >>

voiceVars == << vBlocks, prevVoices, vEarlier >>

wavVars == << wavPcm, wavBlob >>

zipVars == << zip, download >>

uploadVars == << reads, newImages >>

\* the textarea's onChange (line 424)
SetUserInput(text) ==
    /\ pc = "idle"
    /\ userInput # text
    /\ userInput' = text
    /\ UNCHANGED << storyElements, characterImages, feeds >>
    /\ UNCHANGED genVars
    /\ UNCHANGED << voiceVars, wavVars, zipVars, uploadVars >>

\* a handleGenerate that resets the stored results before it validates
GenerateResetsFirst ==
    /\ pc = "idle"
    /\ LET reset == [ Run EXCEPT !.scriptData = Null,
                                 !.generatedImages = << >>,
                                 !.generatedAudio = << >> ]
       IN  IF Trim(userInput) = ""
           THEN Becomes([ reset EXCEPT !.error = IdeaMissing ])
           ELSE IF storyElements = Null
                THEN Becomes([ reset EXCEPT !.error = PremiseMissing ])
                ELSE Becomes(Started(Run))
    /\ UNCHANGED << userInput, storyElements, characterImages, feeds >>
    /\ UNCHANGED << voiceVars, wavVars, zipVars, uploadVars >>

\* handleGenerate is called (lines 213-238)
Generate ==
    /\ pc = "idle"
    /\ IF Trim(userInput) = ""
       THEN Becomes([ Run EXCEPT !.error = IdeaMissing ])
       ELSE IF storyElements = Null
            THEN Becomes([ Run EXCEPT !.error = PremiseMissing ])
            ELSE Becomes(Started(Run))
    /\ UNCHANGED << userInput, storyElements, characterImages, feeds >>
    /\ UNCHANGED << voiceVars, wavVars, zipVars, uploadVars >>

\* the request of kind `kind` the handler is waiting for settles
Settling(req, kind) ==
    /\ pc = kind
    /\ req \in outstanding
    /\ req.kind = kind

Settled(req) == [ Run EXCEPT !.outstanding = @ \ { req } ]

\* generateStory resolves with the script sc
StoryArrives(sc) ==
    /\ \E req \in outstanding :
         /\ Settling(req, "story")
         /\ Becomes(ScriptArrived(Settled(req), sc))
    /\ UNCHANGED << userInput, storyElements, characterImages, feeds >>
    /\ UNCHANGED << voiceVars, wavVars, zipVars, uploadVars >>

\* generateStory rejects (geminiService.ts, lines 183-186)
StoryFails ==
    /\ \E req \in outstanding :
         /\ Settling(req, "story")
         /\ Becomes(Caught(Settled(req), StoryError))
    /\ UNCHANGED << userInput, storyElements, characterImages, feeds >>
    /\ UNCHANGED << voiceVars, wavVars, zipVars, uploadVars >>

\* createImagePromptFromAction resolves: with the model's text, or the fallback
PromptSettles(ok) ==
    /\ \E req \in outstanding :
         /\ Settling(req, "prompt")
         /\ Becomes(PromptArrived(Settled(req), req, ok))
    /\ UNCHANGED << userInput, storyElements, characterImages, feeds >>
    /\ UNCHANGED << voiceVars, wavVars, zipVars, uploadVars >>

\* generateImage resolves
ImageArrives ==
    /\ \E req \in outstanding :
         /\ Settling(req, "image")
         /\ Becomes(ImageArrived(Settled(req), req, "iVBOR"))
    /\ UNCHANGED << userInput, storyElements, characterImages, feeds >>
    /\ UNCHANGED << voiceVars, wavVars, zipVars, uploadVars >>

\* generateImage rejects (geminiService.ts, lines 246-252)
ImageFails ==
    /\ \E req \in outstanding :
         /\ Settling(req, "image")
         /\ Becomes(Caught(Settled(req),
                           ImageError(req.text,
                                      "No image data found in the response.")))
    /\ UNCHANGED << userInput, storyElements, characterImages, feeds >>
    /\ UNCHANGED << voiceVars, wavVars, zipVars, uploadVars >>

\* generateSpeech resolves with an audio payload
SpeechArrives(audioBase64) ==
    /\ \E req \in outstanding :
         /\ Settling(req, "speech")
         /\ Becomes(SpeechArrived(Settled(req), req, audioBase64))
    /\ UNCHANGED << userInput, storyElements, characterImages, feeds >>
    /\ UNCHANGED << voiceVars, wavVars, zipVars, uploadVars >>

\* generateSpeech rejects: no audio payload, or the call failed
\* (geminiService.ts, lines 269-277)
SpeechFails ==
    /\ \E req \in outstanding :
         /\ Settling(req, "speech")
         /\ Becomes(Caught(Settled(req), SpeechError(req.text)))
    /\ UNCHANGED << userInput, storyElements, characterImages, feeds >>
    /\ UNCHANGED << voiceVars, wavVars, zipVars, uploadVars >>

\* handleStartOver (lines 334-345)
StartOver ==
    /\ pc = "idle"
    /\ Becomes(NoLocals([ Run EXCEPT !.scriptData = Null,
                                     !.generatedImages = << >>,
                                     !.generatedAudio = << >>,
                                     !.error = NoError,
                                     !.statusMessage = NoStatus,
                                     !.isProcessing = FALSE,
                                     !.requests = << >> ]))
    /\ characterImages' = NoImages
    /\ userInput' = ""
    /\ storyElements' = Null
    /\ UNCHANGED feeds
    /\ UNCHANGED << voiceVars, wavVars, zipVars, uploadVars >>

\* the application as mounted, no handler running
Mounted ==
    /\ isProcessing = FALSE
    /\ statusMessage = NoStatus
    /\ error = NoError
    /\ scriptData = Null
    /\ generatedImages = << >>
    /\ generatedAudio = << >>
    /\ pc = "idle"
    /\ script = << >>
    /\ images = << >>
    /\ lastCharacter = UnknownSpeaker
    /\ imgI = 0
    /\ audioClips = << >>
    /\ audI = 0
    /\ characterVoices = EmptyMap
    /\ assignedGenders = EmptyMap
    /\ maleVoiceIndex = 0
    /\ femaleVoiceIndex = 0
    /\ outstanding = {}
    /\ requests = << >>
    /\ feeds = [ n \in Range(FeedNames) |-> NoFeed ]
    /\ vBlocks = << >>
    /\ prevVoices = Null
    /\ vEarlier = Null
    /\ wavPcm = Null
    /\ wavBlob = Null
    /\ zip = Null
    /\ download = Null
    /\ reads = << >>
    /\ newImages = NoImages

\* the generation pipeline: the premise fetched or not, reference images
\* uploaded or not, the idea as the draft store holds it
Init ==
    /\ Mounted
    /\ userInput \in Ideas \cup { "" }
    /\ storyElements \in { Null } \cup LoadedPremises
    /\ characterImages = UrsulaImage

Next ==
    \/ \E text \in Ideas : SetUserInput(text)
    \/ Generate
    \/ \E sc \in Scripts : StoryArrives(sc)
    \/ StoryFails
    \/ \E ok \in BOOLEAN : PromptSettles(ok)
    \/ ImageArrives
    \/ ImageFails
    \/ \E audioBase64 \in SpeechPayloads : SpeechArrives(audioBase64)
    \/ SpeechFails
    \/ StartOver

Spec == Init /\ [][Next]_vars

(***************************************************************************)
(* handleFetchPremise (types.ts, lines 191-211) around fetchStoryElements  *)
(* (geminiService.ts, lines 69-103).                                       *)
(***************************************************************************)
feedVars == << isProcessing, statusMessage, error, storyElements, pc, feeds >>

\* handleFetchPremise is called; fetchStoryElements starts the three fetches
FetchPremise(x) ==
    /\ pc = "idle"
    /\ IF Trim(userInput) = ""
       THEN /\ error' = IdeaMissing
            /\ UNCHANGED << isProcessing, statusMessage, storyElements, pc, feeds >>
       ELSE /\ isProcessing' = TRUE
            /\ error' = NoError
            /\ storyElements' = Null
            /\ statusMessage' = << "Fetching today's story premise..." >>
            /\ feeds' = [ n \in Range(FeedNames) |->
                           [ NoFeed EXCEPT !.status = "pending",
                                           !.url = FeedUrl(x, n) ] ]
            /\ pc' = "fetching"
    /\ UNCHANGED << userInput, scriptData, generatedImages, generatedAudio,
                    characterImages, script, images, lastCharacter, imgI,
                    audioClips, audI, characterVoices, assignedGenders,
                    maleVoiceIndex, femaleVoiceIndex, outstanding, requests >>
    /\ UNCHANGED << voiceVars, wavVars, zipVars, uploadVars >>

\* one feed's promise settles; the join resumes the handler once it is due
FeedSettles(name, ok, payload) ==
    /\ pc = "fetching"
    /\ feeds[name].status = "pending"
    /\ LET fs == [ feeds EXCEPT ![name] = RssSettle(@, ok, payload) ]
           result == FetchStoryElements(fs)
       IN  /\ feeds' = fs
           /\ IF AllSettled(fs)
              THEN /\ IF result.ok
                      THEN /\ storyElements' = result.elements
                           /\ UNCHANGED error
                      ELSE /\ error' = result.message
                           /\ UNCHANGED storyElements
                   /\ isProcessing' = FALSE
                   /\ statusMessage' = NoStatus
                   /\ pc' = "idle"
              ELSE UNCHANGED << isProcessing, statusMessage, error,
                                storyElements, pc >>
    /\ UNCHANGED << userInput, scriptData, generatedImages, generatedAudio,
                    characterImages, script, images, lastCharacter, imgI,
                    audioClips, audI, characterVoices, assignedGenders,
                    maleVoiceIndex, femaleVoiceIndex, outstanding, requests >>
    /\ UNCHANGED << voiceVars, wavVars, zipVars, uploadVars >>

\* the premise fetch: nothing loaded yet
InitFeeds ==
    /\ Mounted
    /\ userInput \in Ideas \cup { "" }
    /\ storyElements = Null
    /\ characterImages = NoImages

NextFeeds ==
    \/ \E text \in Ideas : SetUserInput(text)
    \/ \E x \in DailyVariables : FetchPremise(x)
    \/ \E name \in Range(FeedNames) :
         \/ \E text \in FeedTexts(name) : FeedSettles(name, TRUE, text)
         \/ \E cause \in InnerErrors : FeedSettles(name, FALSE, cause)

SpecFeeds == InitFeeds /\ [][NextFeeds]_vars

(***************************************************************************)
(* The voice assignment alone (types.ts, lines 275-303): the locals are    *)
(* declared, the forEach takes one dialogue block after the other; the     *)
(* whole assignment is run again on the same blocks.                       *)
(***************************************************************************)
Voices ==
    [ characterVoices |-> characterVoices, assignedGenders |-> assignedGenders,
      maleVoiceIndex |-> maleVoiceIndex, femaleVoiceIndex |-> femaleVoiceIndex ]

VoicesBecome(vs) ==
    /\ characterVoices' = vs.characterVoices
    /\ assignedGenders' = vs.assignedGenders
    /\ maleVoiceIndex' = vs.maleVoiceIndex
    /\ femaleVoiceIndex' = vs.femaleVoiceIndex

restVars == << isProcessing, statusMessage, error, userInput, storyElements,
               scriptData, generatedImages, generatedAudio, characterImages,
               script, images, lastCharacter, imgI, audioClips, audI,
               outstanding, requests, feeds, vEarlier, wavPcm, wavBlob, zip,
               download, reads, newImages >>

\* lines 275-278: a run declares its locals
VStart ==
    /\ VoicesBecome(VoiceInit)
    /\ vBlocks' = << >>
    /\ prevVoices' = Null
    /\ pc' = "assigning"
    /\ UNCHANGED restVars

\* lines 282-302: the forEach callback, for the next block, of character c
VAssign(c) ==
    /\ pc = "assigning"
    /\ Len(vBlocks) < MaxBlocks
    /\ VoicesBecome(VoiceStep(Voices, c, storyElements[1].characters))
    /\ vBlocks' = Append(vBlocks, c)
    /\ prevVoices' = Null
    /\ UNCHANGED pc
    /\ UNCHANGED restVars

\* lines 275-303 once more, on the same dialogue blocks and premise
VRerun ==
    /\ pc = "assigning"
    /\ prevVoices = Null
    /\ VoicesBecome(AssignVoices(vBlocks, storyElements[1].characters))
    /\ prevVoices' = Some(characterVoices)
    /\ UNCHANGED << pc, vBlocks >>
    /\ UNCHANGED restVars

InitVoices ==
    /\ Mounted
    /\ userInput = RealIdea
    /\ storyElements \in LoadedPremises
    /\ characterImages = NoImages

NextVoices ==
    \/ VStart
    \/ \E c \in Characters : VAssign(c)
    \/ VRerun

SpecVoices == InitVoices /\ [][NextVoices]_vars

\* handleGenerate is called again in the session: the run before is over,
\* lines 275-278 declare the locals of the next run
VNextRun ==
    /\ pc = "assigning"
    /\ vEarlier = Null
    /\ vBlocks # << >>
    /\ VoicesBecome(VoiceInit)
    /\ vEarlier' = Some([ maleVoiceIndex |-> maleVoiceIndex,
                          femaleVoiceIndex |-> femaleVoiceIndex ])
    /\ vBlocks' = << >>
    /\ prevVoices' = Null
    /\ UNCHANGED << isProcessing, statusMessage, error, userInput,
                    storyElements, scriptData, generatedImages, generatedAudio,
                    characterImages, pc, script, images, lastCharacter, imgI,
                    audioClips, audI, outstanding, requests, feeds >>
    /\ UNCHANGED << wavVars, zipVars, uploadVars >>

\* two runs of the voice assignment in one session
NextSession ==
    \/ VStart
    \/ \E c \in Characters : VAssign(c)
    \/ VNextRun

SpecSession == InitVoices /\ [][NextSession]_vars

(***************************************************************************)
(* handleDownloadZip (types.ts, lines 347-414).  A zip is the function     *)
(* from the paths it holds to their content; a file name is the sequence   *)
(* of its characters, the extension being one element.                     *)
(***************************************************************************)
\* script.title: the title generateStory returns
ScriptTitle == "Laundry Day!"

\* scriptData.title.replace(/[^a-z0-9]/gi, '_').toLowerCase()
SafeTitle(title) == IF title = "Laundry Day!" THEN "laundry_day_" ELSE title

\* String.prototype.toUpperCase, on the names of the model
ToUpperCase(s) == IF s = "Ursula" THEN "URSULA" ELSE s

RECURSIVE Flatten(_)
\* the concatenation of a sequence of sequences (text += ...)
Flatten(parts) ==
    IF Len(parts) = 0 THEN << >>
    ELSE IF Len(parts) = 1 THEN parts[1]
    ELSE LET half == Len(parts) \div 2
         IN  Flatten(SubSeq(parts, 1, half))
               \o Flatten(SubSeq(parts, half + 1, Len(parts)))

\* scriptToText: what one element adds to the text
ElementText(el) ==
    IF el.type = "dialogue_block"
    THEN << "\t", ToUpperCase(el.character), "\n" >>
           \o Flatten([ k \in 1..Len(el.elements) |->
                          IF el.elements[k].type = "parenthetical"
                          THEN << "\t(", el.elements[k].content, ")\n" >>
                          ELSE << "\t", el.elements[k].content, "\n" >> ])
           \o << "\n" >>
    ELSE << el.content, "\n\n" >>

\* scriptToText(script)
ScriptToText(sc) ==
    << "Title: ", ScriptTitle, "\n\n" >>
      \o Flatten([ k \in 1..Len(sc) |-> ElementText(sc[k]) ])

RECURSIVE String(_)
\* String(n) for a natural number: its decimal digits
String(n) ==
    IF n < 10 THEN << ToString(n) >>
    ELSE String(n \div 10) \o << ToString(n % 10) >>

\* String.prototype.padEnd
PadEnd(str, targetLength, padString) ==
    IF Len(str) >= targetLength THEN str
    ELSE str \o [ k \in 1..(targetLength - Len(str)) |-> padString ]

\* String.prototype.padStart, with a pad string of one character
PadStart(str, targetLength, padString) ==
    IF Len(str) >= targetLength THEN str
    ELSE [ k \in 1..(targetLength - Len(str)) |-> padString ] \o str

\* `${String(sceneIndex).padStart(4, '0')}.png` and .wav
FileName(sceneIndex, extension) ==
    PadStart(String(sceneIndex), 4, "0") \o << extension >>

\* the entry zip.folder(name) creates
Folder == "<folder>"

RECURSIVE AddImages(_, _)
\* the loop over generatedImages: imageFolder.file(fileName, base64 part)
AddImages(entries, imgs) ==
    IF imgs = << >> THEN entries
    ELSE AddImages(Put(entries,
                       << "images/" >> \o FileName(imgs[1].sceneIndex, ".png"),
                       imgs[1].imageUrl[2]),
                   Tail(imgs))

RECURSIVE AddClips(_, _)
\* the loop over generatedAudio: audioFolder.file(fileName, audio.audioBlob)
AddClips(entries, clips) ==
    IF clips = << >> THEN entries
    ELSE AddClips(Put(entries,
                      << "audio/" >> \o FileName(clips[1].sceneIndex, ".wav"),
                      clips[1].audioBlob),
                  Tail(clips))

\* an audio folder made only when there are clips
AudioFolderLazy(entries, clips) ==
    IF Len(clips) > 0
    THEN AddClips(Put(entries, << "audio/" >>, Folder), clips)
    ELSE entries

\* lines 388-395: the audio folder and its files
AudioFolder(entries, clips) ==
    LET audioFolder == Put(entries, << "audio/" >>, Folder)
    IN  IF Len(clips) > 0 THEN AddClips(audioFolder, clips) ELSE audioFolder

\* lines 375-395: the zip as it stands when generateAsync is called
BuildZip(sc, imgs, clips) ==
    LET scriptJson == [ p \in { << "script.json" >> } |-> [ json |-> sc ] ]
        storyTxt == Put(scriptJson, << "story.txt" >>, ScriptToText(sc))
        imageFolder == Put(storyTxt, << "images/" >>, Folder)
    IN  AudioFolder(AddImages(imageFolder, imgs), clips)

ZipError(reason) == << "Failed to create zip file: ", reason >>

zipWritten == << isProcessing, statusMessage, error, pc, zip, download >>

\* handleDownloadZip is called (lines 369-397)
DownloadZip ==
    /\ pc = "idle"
    /\ IF scriptData = Null
       THEN UNCHANGED zipWritten
       ELSE /\ isProcessing' = TRUE
            /\ statusMessage' = << "Packaging files for download..." >>
            /\ error' = NoError
            /\ zip' = Some(BuildZip(scriptData[1], generatedImages, generatedAudio))
            /\ pc' = "zipping"
            /\ UNCHANGED download
    /\ UNCHANGED << userInput, storyElements, scriptData, generatedImages,
                    generatedAudio, characterImages, script, images,
                    lastCharacter, imgI, audioClips, audI, characterVoices,
                    assignedGenders, maleVoiceIndex, femaleVoiceIndex,
                    outstanding, requests, feeds >>
    /\ UNCHANGED << voiceVars, wavVars, uploadVars >>

\* zip.generateAsync resolves: the link is clicked (lines 397-405, 410-413)
ZipGenerated ==
    /\ pc = "zipping"
    /\ download' = Some([ name |-> << SafeTitle(ScriptTitle), "_assets.zip" >>,
                          files |-> zip[1] ])
    /\ isProcessing' = FALSE
    /\ statusMessage' = NoStatus
    /\ zip' = Null
    /\ pc' = "idle"
    /\ UNCHANGED << error, userInput, storyElements, scriptData, generatedImages,
                    generatedAudio, characterImages, script, images,
                    lastCharacter, imgI, audioClips, audI, characterVoices,
                    assignedGenders, maleVoiceIndex, femaleVoiceIndex,
                    outstanding, requests, feeds >>
    /\ UNCHANGED << voiceVars, wavVars, uploadVars >>

\* zip.generateAsync rejects (lines 407-413)
ZipFails ==
    /\ pc = "zipping"
    /\ error' = ZipError("Can't generate the archive.")
    /\ isProcessing' = FALSE
    /\ statusMessage' = NoStatus
    /\ zip' = Null
    /\ pc' = "idle"
    /\ UNCHANGED << download, userInput, storyElements, scriptData,
                    generatedImages, generatedAudio, characterImages, script,
                    images, lastCharacter, imgI, audioClips, audI,
                    characterVoices, assignedGenders, maleVoiceIndex,
                    femaleVoiceIndex, outstanding, requests, feeds >>
    /\ UNCHANGED << voiceVars, wavVars, uploadVars >>

\* a script of 138 elements: Actions at 0, 12 and 137, spoken blocks at 5
\* and 100, scene headings elsewhere
LongScript ==
    [ k \in 1..138 |->
        IF k - 1 \in { 0, 12, 137 } THEN ActionEl("She runs.")
        ELSE IF k - 1 = 5 THEN DialogueEl("URSULA", Spoken)
        ELSE IF k - 1 = 100 THEN DialogueEl("REX", Toned)
        ELSE HeadingEl("INT. LAB") ]

\* the scripts bundled: none or one element, an Action after a spoken block,
\* and the long script
ZipScripts ==
    SeqsUpTo(SceneElements, 1)
      \cup { << DialogueEl("REX", Spoken), ActionEl("She runs.") >>, LongScript }

\* generation and bundling, over the scripts bundled
NextZip ==
    \/ \E text \in Ideas : SetUserInput(text)
    \/ Generate
    \/ \E sc \in ZipScripts : StoryArrives(sc)
    \/ StoryFails
    \/ \E ok \in BOOLEAN : PromptSettles(ok)
    \/ ImageArrives
    \/ ImageFails
    \/ \E audioBase64 \in SpeechPayloads : SpeechArrives(audioBase64)
    \/ SpeechFails
    \/ StartOver
    \/ DownloadZip
    \/ ZipGenerated
    \/ ZipFails

SpecZip == Init /\ [][NextZip]_vars

(***************************************************************************)
(* handleCharacterImageUpload (types.ts, lines 155-189).  Each file is     *)
(* read by a FileReader of its own; the handler waits for Promise.all.     *)
(***************************************************************************)
\* the selections of the model: none, and an image with a second file
\* without extension
FileLists ==
    { << >>,
      << [ name |-> "Ursula.png", type |-> "image/png" ],
         [ name |-> "notes", type |-> "" ] >> }

\* file.name.split('.').slice(0, -1).join('.').toLowerCase()
CharacterName(fileName) ==
    CASE fileName = "Ursula.png" -> "ursula"
      [] fileName = "rex.jpg"    -> "rex"
      [] OTHER                   -> ""

\* reader.readAsDataURL(file): the result, split at the comma
DataUrl(file) == << "data:" \o file.type \o ";base64", "UklGR" >>

\* reader.onload: the entry written to newImages
Loaded(imgs, file, result) ==
    LET characterName == CharacterName(file.name)
    IN  IF result # << >> /\ characterName # ""
        THEN Put(imgs, characterName,
                 [ base64 |-> result[2], mimeType |-> file.type ])
        ELSE imgs

\* a reader without onerror: a failed read settles nothing
ReadSettleNoOnError(rs, k, ok) ==
    [ rs EXCEPT ![k].status = IF ok THEN "fulfilled" ELSE "silent" ]

\* the promise of file k: resolve() in onload, reject in onerror
ReadSettle(rs, k, ok) ==
    [ rs EXCEPT ![k].status = IF ok THEN "fulfilled" ELSE "rejected" ]

\* { ...prev, ...newImages }
Merged(prev, new) ==
    [ k \in (DOMAIN prev) \cup (DOMAIN new) |->
        IF k \in DOMAIN new THEN new[k] ELSE prev[k] ]

ReadError == << "Failed to read image files." >>

\* handleCharacterImageUpload is called with the chosen files (lines 155-176)
Upload(files) ==
    /\ pc = "idle"
    /\ IF Len(files) = 0
       THEN UNCHANGED << isProcessing, statusMessage, pc, reads, newImages >>
       ELSE /\ isProcessing' = TRUE
            /\ statusMessage' =
                 << "Reading ", ToString(Len(files)), " image(s)..." >>
            /\ reads' = [ k \in 1..Len(files) |->
                            [ file |-> files[k], status |-> "pending" ] ]
            /\ newImages' = NoImages
            /\ pc' = "reading"
    /\ UNCHANGED << error, userInput, storyElements, scriptData,
                    generatedImages, generatedAudio, characterImages, script,
                    images, lastCharacter, imgI, audioClips, audI,
                    characterVoices, assignedGenders, maleVoiceIndex,
                    femaleVoiceIndex, outstanding, requests, feeds >>
    /\ UNCHANGED << voiceVars, wavVars, zipVars >>

\* the reader of file k fires onload or onerror; Promise.all resumes the
\* handler at the first rejection or once every read is done (lines 161-187).
\* Readers still at work when the handler has ended write to a local nobody
\* reads any more.
ReadSettles(k, ok) ==
    /\ pc = "reading"
    /\ k \in 1..Len(reads)
    /\ reads[k].status = "pending"
    /\ LET rs == ReadSettle(reads, k, ok)
           imgs == IF ok
                   THEN Loaded(newImages, reads[k].file, DataUrl(reads[k].file))
                   ELSE newImages
           rejected == \E j \in 1..Len(rs) : rs[j].status = "rejected"
           fulfilled == \A j \in 1..Len(rs) : rs[j].status = "fulfilled"
       IN  IF rejected \/ fulfilled
           THEN /\ IF rejected
                   THEN /\ error' = ReadError
                        /\ UNCHANGED characterImages
                   ELSE /\ characterImages' = Merged(characterImages, imgs)
                        /\ UNCHANGED error
                /\ isProcessing' = FALSE
                /\ statusMessage' = NoStatus
                /\ reads' = << >>
                /\ newImages' = NoImages
                /\ pc' = "idle"
           ELSE /\ reads' = rs
                /\ newImages' = imgs
                /\ UNCHANGED << isProcessing, statusMessage, error,
                                characterImages, pc >>
    /\ UNCHANGED << userInput, storyElements, scriptData, generatedImages,
                    generatedAudio, script, images, lastCharacter, imgI,
                    audioClips, audI, characterVoices, assignedGenders,
                    maleVoiceIndex, femaleVoiceIndex, outstanding, requests,
                    feeds >>
    /\ UNCHANGED << voiceVars, wavVars, zipVars >>

(***************************************************************************)
(* The application: the four handlers, Start Over and the textarea, with   *)
(* every external call settling sooner or later.                           *)
(***************************************************************************)
\* the scripts of the application: a block without dialogue text, and a
\* speaking block before an Action
AppScripts ==
    { << DialogueEl("URSULA", Silent) >>,
      << DialogueEl("URSULA", Spoken), ActionEl("She runs.") >> }

\* getDailyVariable() on the day of the session
AppDay == "28"

\* the seed each feed holds
AppText(name) ==
    IF name = "characters" THEN << "URSULA", "(f)", "and", "rex", "(M)" >>
    ELSE IF name = "story" THEN << "A", "crew", "adrift" >>
    ELSE << "Laundry", "day" >>

InitApp ==
    /\ Mounted
    /\ userInput \in Ideas
    /\ storyElements = Null
    /\ characterImages = NoImages

\* an external call settles: a feed, the story, a prompt, an image, a
\* speech, the archive, a file read
Settles ==
    \/ \E name \in Range(FeedNames) :
         \/ FeedSettles(name, TRUE, AppText(name))
         \/ FeedSettles(name, FALSE, HttpError("503"))
    \/ StoryFails
    \/ \E sc \in AppScripts : StoryArrives(sc)
    \/ \E ok \in BOOLEAN : PromptSettles(ok)
    \/ ImageFails
    \/ ImageArrives
    \/ SpeechFails
    \/ \E audioBase64 \in SpeechPayloads : SpeechArrives(audioBase64)
    \/ ZipFails
    \/ ZipGenerated
    \/ \E k \in 1..2, ok \in BOOLEAN : ReadSettles(k, ok)

NextApp ==
    \/ FetchPremise(AppDay)
    \/ Generate
    \/ DownloadZip
    \/ \E files \in FileLists : Upload(files)
    \/ StartOver
    \/ Settles

SpecApp == InitApp /\ [][NextApp]_vars /\ WF_vars(Settles)

(***************************************************************************)
(* The WAV encoding alone (types.ts, lines 317-318): decode and pcmToWav    *)
(* applied to one payload of the speech service after the other.           *)
(***************************************************************************)
MaxGroups == 40

\* base64 payloads: whole groups of four characters, the last one padded or
\* not; short clips, and clips whose length needs two, three and four bytes
WavPayloads ==
    { [ chars |-> 4 * g, pad |-> p ] :
        g \in (0..MaxGroups) \cup { 88, 21848, 5592408, 100000000 },
        p \in 0..2 } \ { [ chars |-> 0, pad |-> p ] : p \in 1..2 }

\* const pcmData = decode(audioBase64); const audioBlob = pcmToWav(...)
Encode(audioBase64) ==
    /\ wavPcm' = Some(Decode(audioBase64))
    /\ wavBlob' = Some(PcmToWav(Decode(audioBase64), SAMPLE_RATE, 1, 16))
    /\ UNCHANGED << userInput, storyElements, characterImages, feeds >>
    /\ UNCHANGED genVars
    /\ UNCHANGED << voiceVars, zipVars, uploadVars >>

InitWav ==
    /\ Mounted
    /\ userInput = ""
    /\ storyElements = Null
    /\ characterImages = NoImages

NextWav == \E audioBase64 \in WavPayloads : Encode(audioBase64)

SpecWav == InitWav /\ [][NextWav]_vars

(***************************************************************************)
(* Claims.                                                                 *)
(***************************************************************************)
Max(S) == CHOOSE x \in S : \A y \in S : y <= x

Min(S) == CHOOSE x \in S : \A y \in S : x <= y

\* the requests of the image stage the run has issued
ImageStage(req) == req.kind \in { "prompt", "image" }

\* the character of the nearest dialogue block before position i, 'A character'
\* when there is none
NearestSpeaker(sc, i) ==
    LET before == { k \in 1..i : sc[k].type = "dialogue_block" }
    IN  IF before = {} THEN "A character" ELSE sc[Max(before)].character

HasContent(sc, i) == sc[i + 1].type = "action" /\ sc[i + 1].content # ""

\* C1: every request of the image stage is for an Action element with content
\* and carries, as speaker, the character of the nearest DialogueBlock before
\* that element, or 'A character' when no DialogueBlock precedes it; a run that
\* ended without error has asked for the prompt of every such element.
C1_SpeakerAttribution ==
    scriptData # Null =>
      LET sc == scriptData[1]
      IN  /\ \A k \in 1..Len(requests) :
                ImageStage(requests[k]) =>
                  /\ HasContent(sc, requests[k].sceneIndex)
                  /\ requests[k].character =
                         NearestSpeaker(sc, requests[k].sceneIndex)
          /\ (pc = "idle" /\ error = NoError /\ requests # << >>) =>
                \A i \in 0..(Len(sc) - 1) :
                   HasContent(sc, i) =>
                     \E k \in 1..Len(requests) :
                        /\ requests[k].kind = "prompt"
                        /\ requests[k].sceneIndex = i

\* an Action attributed to REX although another element stands between REX's
\* DialogueBlock and the Action
C1_Witness ==
    /\ scriptData # Null
    /\ \E k \in 1..Len(requests) :
          /\ requests[k].kind = "image"
          /\ requests[k].character = "REX"
          /\ requests[k].sceneIndex >= 2
          /\ scriptData[1][requests[k].sceneIndex].type # "dialogue_block"

\* C2: in a script without any DialogueBlock every Action's speaker is the
\* sentinel 'A character'.
C2_NoDialogueSentinel ==
    (scriptData # Null
       /\ \A k \in 1..Len(scriptData[1]) :
             scriptData[1][k].type # "dialogue_block") =>
      \A k \in 1..Len(requests) :
         ImageStage(requests[k]) => requests[k].character = "A character"

\* a finished run over a script of Actions only, two of them with content
C2_Witness ==
    /\ scriptData # Null
    /\ \A k \in 1..Len(scriptData[1]) : scriptData[1][k].type = "action"
    /\ pc = "idle"
    /\ Len(generatedImages) >= 2
    /\ \A k \in 1..Len(requests) :
         ImageStage(requests[k]) => requests[k].character = "A character"

\* the distinct names of a sequence of names, in the order of first occurrence
RECURSIVE FirstSeen(_)
FirstSeen(names) ==
    IF names = << >> THEN << >>
    ELSE LET init == FirstSeen(SubSeq(names, 1, Len(names) - 1))
             last == names[Len(names)]
         IN  IF last \in Range(init) THEN init ELSE Append(init, last)

\* the gender markers the premise attaches to a name, lower-cased, in the
\* order of the text
MarkersOf(name, text) ==
    LET at == SelectSeq([ i \in 1..Len(text) |-> i ],
                        LAMBDA i : /\ i < Len(text)
                                   /\ ToLowerCase(text[i]) = ToLowerCase(name)
                                   /\ text[i + 1] \in { "(m)", "(M)", "(f)", "(F)" })
    IN  [ k \in 1..Len(at) |-> IF text[at[k] + 1] \in { "(f)", "(F)" }
                               THEN "f" ELSE "m" ]

\* the premise text of the voice runs
VText == storyElements[1].characters

Unmarked(name) == MarkersOf(name, VText) = << >>

FromMalePool(name) ==
    MarkersOf(name, VText) = << >> \/ MarkersOf(name, VText)[1] = "m"

\* C3: the assignment run again on the same dialogue blocks and the same
\* premise gives the mapping the first run gave, whatever ran before.
C3_AssignmentDeterministic ==
    prevVoices # Null => characterVoices = prevVoices[1]

\* a second run over blocks of at least three characters, both pools used
C3_Witness ==
    /\ prevVoices # Null
    /\ Cardinality(DOMAIN characterVoices) >= 3
    /\ \E c \in DOMAIN characterVoices : characterVoices[c] = "Kore"
    /\ \E c \in DOMAIN characterVoices : characterVoices[c] = "Charon"

\* C4 (as stated): the k-th character without a gender marker, in first-seen
\* order and counted from 0, has MALE_VOICES[k mod 4].
C4_Original ==
    pc = "assigning" =>
      LET such == SelectSeq(FirstSeen(vBlocks), Unmarked)
      IN  \A k \in 1..Len(such) :
             Get(characterVoices, such[k]) = MALE_VOICES[((k - 1) % 4) + 1]

\* C4 (amended): the k-th name, as spelled in the dialogue blocks, in
\* first-seen order and counted from 0, among the names that carry no marker
\* or whose first marker is (m), has MALE_VOICES[k mod 4].
C4_MaleRoundRobin ==
    pc = "assigning" =>
      LET such == SelectSeq(FirstSeen(vBlocks), FromMalePool)
      IN  \A k \in 1..Len(such) :
             Get(characterVoices, such[k]) = MALE_VOICES[((k - 1) % 4) + 1]

\* five names drawn from the male pool, one of them marked (m) and one
\* unmarked: the fifth has the first voice again
C4_Witness ==
    /\ pc = "assigning"
    /\ LET such == SelectSeq(FirstSeen(vBlocks), FromMalePool)
       IN  /\ Len(such) = 5
           /\ Get(characterVoices, such[5]) = MALE_VOICES[1]
           /\ Get(characterVoices, such[4]) = MALE_VOICES[4]
           /\ \E k \in 1..5 : Unmarked(such[k])
           /\ \E k \in 1..5 : ~Unmarked(such[k])

\* the character names of the script's dialogue blocks
SpeakingNames ==
    { script[k].character :
        k \in { j \in 1..Len(script) : script[j].type = "dialogue_block" } }

\* the premise marks the name, and with (f) only
ConfidentlyFemale(name) ==
    LET markers == MarkersOf(name, VText)
    IN  /\ markers # << >>
        /\ \A k \in 1..Len(markers) : markers[k] = "f"

\* the script Action, DialogueBlock(URSULA), Action under a premise that marks
\* URSULA with (f)
UrsulaScenario ==
    /\ scriptData # Null
    /\ storyElements # Null
    /\ Len(scriptData[1]) = 3
    /\ HasContent(scriptData[1], 0)
    /\ scriptData[1][2].type = "dialogue_block"
    /\ scriptData[1][2].character = "URSULA"
    /\ HasContent(scriptData[1], 2)
    /\ MarkersOf("URSULA", VText) = << "f" >>

\* C5: a character has a voice of the female pool if and only if the premise
\* marks its name with (f), unambiguously, and the female pool is not empty;
\* every other character has a voice of the male pool.  In the script Action,
\* DialogueBlock(URSULA), Action with URSULA marked (f), the first Action's
\* speaker is 'A character', URSULA speaks with the first female voice and the
\* second Action's speaker is URSULA.
C5_FemaleIffMarked ==
    /\ pc = "speech" =>
         \A c \in DOMAIN characterVoices :
            IF ConfidentlyFemale(c) /\ Len(FEMALE_VOICES) > 0
            THEN characterVoices[c] \in Range(FEMALE_VOICES)
            ELSE characterVoices[c] \in Range(MALE_VOICES)
    /\ UrsulaScenario =>
         \A k \in 1..Len(requests) :
            /\ (ImageStage(requests[k]) /\ requests[k].sceneIndex = 0) =>
                   requests[k].character = "A character"
            /\ (ImageStage(requests[k]) /\ requests[k].sceneIndex = 2) =>
                   requests[k].character = "URSULA"
            /\ requests[k].kind = "speech" =>
                   requests[k].voice = FEMALE_VOICES[1]

\* C6: dialogue blocks whose character names differ only in letter case share
\* one table entry, one voice and one slot of the round-robin pools.
C6_CaseFoldedKey ==
    pc = "speech" =>
      LET folded == { ToLowerCase(c) : c \in SpeakingNames }
      IN  /\ \A a, b \in SpeakingNames :
                ToLowerCase(a) = ToLowerCase(b) =>
                   Get(characterVoices, a) = Get(characterVoices, b)
          /\ Cardinality(DOMAIN characterVoices) = Cardinality(folded)
          /\ maleVoiceIndex + femaleVoiceIndex = Cardinality(folded)
          /\ \A j, k \in 1..Len(requests) :
                (/\ requests[j].kind = "speech"
                 /\ requests[k].kind = "speech"
                 /\ ToLowerCase(requests[j].character)
                      = ToLowerCase(requests[k].character)) =>
                   requests[j].voice = requests[k].voice

\* C7: the speech requests of a run issued for one character all carry one
\* voice, the character's table entry, and that entry is the one the
\* character got at its first dialogue block: no later block changes it.
C7_VoiceFixed ==
    /\ \A j, k \in 1..Len(requests) :
          (/\ requests[j].kind = "speech"
           /\ requests[k].kind = "speech"
           /\ requests[j].character = requests[k].character) =>
             requests[j].voice = requests[k].voice
    /\ pc = "speech" =>
         LET names == BlockCharacters(script)
         IN  /\ \A k \in 1..Len(requests) :
                   requests[k].kind = "speech" =>
                     requests[k].voice
                       = Get(characterVoices, requests[k].character)
             /\ \A n \in 1..Len(names) :
                   LET sofar == AssignVoices(SubSeq(names, 1, n), VText)
                   IN  \A c \in DOMAIN sofar.characterVoices :
                          sofar.characterVoices[c] = Get(characterVoices, c)

\* a character speaking twice, another character's block in between
C7_Witness ==
    \E i, j, k \in 1..Len(requests) :
       /\ i < j /\ j < k
       /\ requests[i].kind = "speech"
       /\ requests[j].kind = "speech"
       /\ requests[k].kind = "speech"
       /\ requests[i].character = requests[k].character
       /\ requests[j].character # requests[i].character
       /\ requests[j].voice # requests[i].voice

\* the parts of a sequence of strings between the occurrences of sep
RECURSIVE SplitOn(_, _)
SplitOn(seq, sep) ==
    LET at == { i \in 1..Len(seq) : seq[i] = sep }
    IN  IF at = {} THEN << seq >>
        ELSE << SubSeq(seq, 1, Min(at) - 1) >>
               \o SplitOn(SubSeq(seq, Min(at) + 1, Len(seq)), sep)

\* the failed-feed entries an error message lists
Entries(message) ==
    IF message = << >> \/ message[1] # FeedErrorHead THEN << >>
    ELSE SplitOn(Tail(message), "\n- ")

FeedLabel(name) ==
    CASE name = "characters" -> "Characters"
      [] name = "story" -> "Story"
      [] name = "today" -> "Today"

\* C8: when characters and story succeed and today fails with HTTP status
\* 503, the error of fetchStoryElements lists exactly one failed feed, names
\* the feed today and contains the reason 503.
C8_PartialFeedFailure ==
    [][ (/\ pc = "fetching"
         /\ pc' = "idle"
         /\ feeds'["characters"].status = "fulfilled"
         /\ feeds'["story"].status = "fulfilled"
         /\ feeds'["today"].status = "rejected"
         /\ feeds'["today"].cause = << "Network response was not ok, status: ", "503" >>)
        => /\ Len(Entries(error')) = 1
           /\ Entries(error')[1][2] \in { "today", "Today" }
           /\ "503" \in Range(Entries(error')[1]) ]_vars

\* what holds when fetchStoryElements returns or throws
JoinPost(fs, elements, err) ==
    LET failed == SelectSeq(FeedNames, LAMBDA n : fs[n].status = "rejected")
        entries == Entries(err)
    IN  /\ \A n \in Range(FeedNames) : fs[n].status \in { "fulfilled", "rejected" }
        /\ (elements # Null) <=> (failed = << >>)
        /\ failed = << >> =>
              /\ err = NoError
              /\ \A n \in Range(FeedNames) : elements[1][n] = fs[n].value
        /\ failed # << >> =>
              /\ Len(entries) = Len(failed)
              /\ \A k \in 1..Len(failed) :
                    entries[k] = << "'", FeedLabel(failed[k]), "' feed: " >>
                                   \o fs[failed[k]].value

\* C9: fetchStoryElements returns or throws only when all three fetches have
\* settled, in whatever order; it returns the three texts if and only if all
\* three succeeded, and otherwise throws one error with exactly one entry per
\* failed feed, in feed order, naming the feed with the reason its fetch was
\* rejected with, and no entry for a feed that succeeded.
C9_JoinWaitsForAll ==
    [][ (pc = "fetching" /\ pc' = "idle")
        => JoinPost(feeds', storyElements', error') ]_vars

\* characters and today failed, story succeeded: two entries
C9_Witness ==
    /\ pc = "idle"
    /\ feeds["characters"].status = "rejected"
    /\ feeds["story"].status = "fulfilled"
    /\ feeds["today"].status = "rejected"
    /\ feeds["characters"].cause # feeds["today"].cause
    /\ Len(Entries(error)) = 2
    /\ storyElements = Null

\* the positions of the log that hold requests of the image stage
ImageStageAt == { k \in 1..Len(requests) : ImageStage(requests[k]) }

\* C10: at most one request of the image stage is outstanding; a request of
\* the image stage is issued only when all earlier ones have completed; each
\* Action's prompt request is followed by its image request, and the Actions
\* are taken in document order.
C10_ImageStageSequential ==
    /\ Cardinality({ req \in outstanding : ImageStage(req) }) <= 1
    /\ \A j, k \in ImageStageAt : j < k => requests[j] \notin outstanding
    /\ \A k \in ImageStageAt :
          LET earlier == { j \in ImageStageAt : j < k }
          IN  IF requests[k].kind = "image"
              THEN /\ earlier # {}
                   /\ requests[Max(earlier)].kind = "prompt"
                   /\ requests[Max(earlier)].sceneIndex = requests[k].sceneIndex
              ELSE earlier # {} =>
                   /\ requests[Max(earlier)].kind = "image"
                   /\ requests[Max(earlier)].sceneIndex < requests[k].sceneIndex

\* the second Action's image request outstanding, the first Action's done
C10_Witness ==
    /\ Cardinality(ImageStageAt) = 4
    /\ requests[Max(ImageStageAt)].kind = "image"
    /\ requests[Max(ImageStageAt)] \in outstanding
    /\ Len(images) = 1

\* the positions (from 0) of the Actions with content, and of the dialogue
\* blocks whose dialogue text is not empty, in a script
ActionsOf(sc) == { i \in 0..(Len(sc) - 1) : HasContent(sc, i) }

\* a block's dialogue text: the content of its first element of type dialogue
SpokenText(el) ==
    LET at == { k \in 1..Len(el.elements) : el.elements[k].type = "dialogue" }
    IN  IF at = {} THEN "" ELSE el.elements[Min(at)].content

SpeakingOf(sc) ==
    { i \in 0..(Len(sc) - 1) :
        sc[i + 1].type = "dialogue_block" /\ SpokenText(sc[i + 1]) # "" }

SpeechAt == { k \in 1..Len(requests) : requests[k].kind = "speech" }

\* C11: when a speech request is issued every Action with content has had its
\* image request, all requests of the image stage have completed and the
\* images are stored; while speech is synthesized the voice table has an
\* entry for every DialogueBlock character of the script.
C11_StagesDoNotOverlap ==
    /\ SpeechAt # {} =>
         /\ \A k \in ImageStageAt :
               k < Min(SpeechAt) /\ requests[k] \notin outstanding
         /\ \A i \in ActionsOf(scriptData[1]) :
               \E k \in ImageStageAt :
                  requests[k].kind = "image" /\ requests[k].sceneIndex = i
         /\ Len(generatedImages) = Cardinality(ActionsOf(scriptData[1]))
    /\ pc = "speech" =>
         /\ SpeechAt # {}
         /\ \A c \in SpeakingNames : Get(characterVoices, c) \in Range(MALE_VOICES) \cup Range(FEMALE_VOICES)
         /\ \A k \in SpeechAt : requests[k].voice \in Range(MALE_VOICES) \cup Range(FEMALE_VOICES)

\* a speech request for a block that stands before an Action of the script,
\* and a table entry for a character whose block has no dialogue text
C11_Witness ==
    /\ pc = "speech"
    /\ \E k \in SpeechAt, j \in ImageStageAt :
          requests[k].sceneIndex < requests[j].sceneIndex
    /\ \E i \in 1..Len(script) :
          /\ script[i].type = "dialogue_block"
          /\ SpokenText(script[i]) = ""
          /\ script[i].character \in DOMAIN characterVoices

IsImageError(message) ==
    message # << >> /\ message[1] = "Failed to generate image for prompt: \""

IsSpeechError(message) ==
    message # << >> /\ message[1] = "Failed to generate speech for text: \""

\* C12: the step in which an image call fails ends the run with the image
\* error set and issues no request; as long as that error stands, the failed
\* image request is the last request of the log, nothing is outstanding and
\* no speech request was issued.
C12_ImageFailureFatal ==
    /\ [][ ImageFails =>
             /\ pc' = "idle"
             /\ IsImageError(error')
             /\ requests' = requests
             /\ outstanding' = {} ]_vars
    /\ [](IsImageError(error) =>
             /\ pc = "idle"
             /\ outstanding = {}
             /\ requests[Len(requests)].kind = "image"
             /\ SpeechAt = {})

\* the second Action's image failed, in a script with a speaking block
C12_Witness ==
    /\ IsImageError(error)
    /\ Cardinality(ImageStageAt) = 4
    /\ SpeakingOf(scriptData[1]) # {}

\* C13: the step in which prompt derivation fails issues the image request
\* of the same Action, its prompt ending in the speaker name, a blank and the
\* raw action text, and sets no error.
C13_PromptFallback ==
    [][ PromptSettles(FALSE) =>
          /\ pc' = "image"
          /\ error' = NoError
          /\ Len(requests') = Len(requests) + 1
          /\ LET asked == requests[Len(requests)]
                 image == requests'[Len(requests')]
                 n == Len(image.text)
             IN  /\ image.kind = "image"
                 /\ image \in outstanding'
                 /\ image.sceneIndex = asked.sceneIndex
                 /\ n >= 3
                 /\ SubSeq(image.text, n - 2, n)
                      = << NearestSpeaker(scriptData[1], asked.sceneIndex), " ",
                           scriptData[1][asked.sceneIndex + 1].content >> ]_vars

\* a run that finished without error although a prompt derivation of REX's
\* Action had failed
C13_Witness ==
    /\ pc = "idle"
    /\ error = NoError
    /\ \E k \in ImageStageAt :
          /\ requests[k].kind = "image"
          /\ requests[k].text = << "REX", " ", "She runs." >>
    /\ Len(generatedImages) >= 1

\* the positions of a set of natural numbers in increasing order
RECURSIVE Ascending(_)
Ascending(S) == IF S = {} THEN << >> ELSE << Min(S) >> \o Ascending(S \ { Min(S) })

\* C14: after a run without error the audio list holds, in document order,
\* exactly one clip for each DialogueBlock whose dialogue text is not empty,
\* with the block's position, character and text, and none for the others.
C14_OneClipPerSpokenBlock ==
    (pc = "idle" /\ error = NoError /\ scriptData # Null) =>
      LET sc == scriptData[1]
          spoken == Ascending(SpeakingOf(sc))
      IN  /\ Len(generatedAudio) = Len(spoken)
          /\ \A k \in 1..Len(spoken) :
                /\ generatedAudio[k].sceneIndex = spoken[k]
                /\ generatedAudio[k].character = sc[spoken[k] + 1].character
                /\ generatedAudio[k].dialogue = SpokenText(sc[spoken[k] + 1])

\* a finished run with two clips and a skipped block between them
C14_Witness ==
    /\ pc = "idle" /\ error = NoError /\ scriptData # Null
    /\ Len(generatedAudio) = 2
    /\ generatedAudio[1].sceneIndex = 0
    /\ generatedAudio[2].sceneIndex = 2
    /\ scriptData[1][2].type = "dialogue_block"

\* C15: the step in which a speech call fails (no audio payload) ends the run
\* with the speech error set, issues no request and records no clip.
C15_SpeechFailureFatal ==
    /\ [][ SpeechFails =>
             /\ pc' = "idle"
             /\ IsSpeechError(error')
             /\ requests' = requests
             /\ outstanding' = {}
             /\ generatedAudio' = << >> ]_vars
    /\ [](IsSpeechError(error) =>
             /\ pc = "idle"
             /\ outstanding = {}
             /\ requests[Len(requests)].kind = "speech"
             /\ generatedAudio = << >>)

\* the second block's speech failed, a later speaking block never asked for
C15_Witness ==
    /\ IsSpeechError(error)
    /\ Cardinality(SpeechAt) = 2
    /\ Cardinality(SpeakingOf(scriptData[1])) = 3

\* C16: the step in which an image or speech call fails ends the run with
\* isProcessing false and the status message empty, and leaves the script,
\* the stored images and the stored audio as they were: the script is set,
\* and when it is a speech call the images of all Actions are stored.
C16_ErrorClearsProgress ==
    [][ (ImageFails \/ SpeechFails) =>
          /\ pc' = "idle"
          /\ isProcessing' = FALSE
          /\ statusMessage' = << >>
          /\ error' # << >>
          /\ scriptData' = scriptData
          /\ scriptData' # Null
          /\ generatedImages' = generatedImages
          /\ generatedAudio' = generatedAudio
          /\ SpeechFails =>
                Len(generatedImages') = Cardinality(ActionsOf(scriptData[1])) ]_vars

\* a speech failure after two images were stored
C16_Witness ==
    /\ IsSpeechError(error)
    /\ isProcessing = FALSE
    /\ scriptData # Null
    /\ Len(generatedImages) = 2

StrictlyIncreasing(list) ==
    \A j, k \in 1..Len(list) : j < k => list[j].sceneIndex < list[k].sceneIndex

\* C20: the sceneIndex values of the image list and of the audio list, stored
\* or being built, are pairwise distinct and in increasing order.
C20_SceneIndexOrdered ==
    /\ StrictlyIncreasing(generatedImages)
    /\ StrictlyIncreasing(generatedAudio)
    /\ StrictlyIncreasing(images)
    /\ StrictlyIncreasing(audioClips)

\* two images and a clip stored, a block between the Actions
C20_Witness ==
    /\ Len(generatedImages) = 2
    /\ Len(generatedAudio) = 1
    /\ generatedImages[1].sceneIndex < generatedAudio[1].sceneIndex
    /\ generatedAudio[1].sceneIndex < generatedImages[2].sceneIndex

\* DataView.getUint16 and getUint32, little-endian, at a byte offset
GetUint16(bytes, offset) == bytes[offset + 1] + 256 * bytes[offset + 2]

GetUint32(bytes, offset) ==
    bytes[offset + 1] + 256 * bytes[offset + 2] + 65536 * bytes[offset + 3]
      + 16777216 * bytes[offset + 4]

\* C17: the header pcmToWav writes for N bytes of PCM at 24000 Hz, one
\* channel, 16 bits has 44 bytes; read back, its dataSize field is N, its
\* fileSize field 36 + N, and its format fields are PCM, 1 channel, 24000 Hz,
\* byte rate 48000, block align 2, 16 bits per sample, behind the tags RIFF,
\* WAVE, 'fmt ' and 'data'; the payload behind the header has N bytes.
C17_WavRoundTrip ==
    wavBlob # Null =>
      LET header == wavBlob[1].header
          N == wavPcm[1]
      IN  /\ Len(header) = 44
          /\ SubSeq(header, 1, 4) = << 82, 73, 70, 70 >>
          /\ GetUint32(header, 4) = 36 + N
          /\ SubSeq(header, 9, 12) = << 87, 65, 86, 69 >>
          /\ SubSeq(header, 13, 16) = << 102, 109, 116, 32 >>
          /\ GetUint32(header, 16) = 16
          /\ GetUint16(header, 20) = 1
          /\ GetUint16(header, 22) = 1
          /\ GetUint32(header, 24) = 24000
          /\ GetUint32(header, 28) = 48000
          /\ GetUint16(header, 32) = 2
          /\ GetUint16(header, 34) = 16
          /\ SubSeq(header, 37, 40) = << 100, 97, 116, 97 >>
          /\ GetUint32(header, 40) = N
          /\ wavBlob[1].payload = N

\* a payload whose length needs three bytes, and is odd
C17_Witness ==
    /\ wavBlob # Null
    /\ wavPcm[1] > 65536
    /\ wavPcm[1] % 2 = 1
    /\ wavBlob[1].header[43] # 0

\* a scene index below 10000 as four decimal digits
FourDigits(n) ==
    << ToString((n \div 1000) % 10), ToString((n \div 100) % 10),
       ToString((n \div 10) % 10), ToString(n % 10) >>

\* the last asset first
Reversed(list) == [ k \in 1..Len(list) |-> list[Len(list) + 1 - k] ]

\* the paths a zip holds inside a folder
FilesIn(entries, folder) ==
    { p \in DOMAIN entries : p[1] = folder /\ Len(p) > 1 }

\* C18: in the zip handleDownloadZip builds, every stored image is the file
\* images/<sceneIndex as four zero-padded digits>.png holding its base64
\* part, every stored clip the file audio/<four digits>.wav holding its
\* blob, and the folders hold nothing else; an image of sceneIndex 0, 12 or
\* 137 is 0000.png, 0012.png or 0137.png; iterating the assets in the
\* opposite order builds the same zip.
C18_FileNames ==
    zip # Null =>
      LET entries == zip[1]
          PngOf(img) == << "images/" >> \o FourDigits(img.sceneIndex) \o << ".png" >>
          WavOf(clip) == << "audio/" >> \o FourDigits(clip.sceneIndex) \o << ".wav" >>
      IN  /\ \A k \in 1..Len(generatedImages) :
                /\ PngOf(generatedImages[k]) \in DOMAIN entries
                /\ entries[PngOf(generatedImages[k])] = generatedImages[k].imageUrl[2]
          /\ \A k \in 1..Len(generatedAudio) :
                /\ WavOf(generatedAudio[k]) \in DOMAIN entries
                /\ entries[WavOf(generatedAudio[k])] = generatedAudio[k].audioBlob
          /\ FilesIn(entries, "images/")
               = { PngOf(generatedImages[k]) : k \in 1..Len(generatedImages) }
          /\ FilesIn(entries, "audio/")
               = { WavOf(generatedAudio[k]) : k \in 1..Len(generatedAudio) }
          /\ \A k \in 1..Len(generatedImages) :
                /\ generatedImages[k].sceneIndex = 0
                     => << "images/", "0", "0", "0", "0", ".png" >> \in DOMAIN entries
                /\ generatedImages[k].sceneIndex = 12
                     => << "images/", "0", "0", "1", "2", ".png" >> \in DOMAIN entries
                /\ generatedImages[k].sceneIndex = 137
                     => << "images/", "0", "1", "3", "7", ".png" >> \in DOMAIN entries
          /\ BuildZip(scriptData[1], Reversed(generatedImages),
                      Reversed(generatedAudio)) = entries

\* the zip of the long script: images of scenes 0, 12 and 137, two clips
C18_Witness ==
    /\ zip # Null
    /\ { generatedImages[k].sceneIndex : k \in 1..Len(generatedImages) }
         = { 0, 12, 137 }
    /\ Len(generatedAudio) = 2
    /\ << "images/", "0", "1", "3", "7", ".png" >> \in DOMAIN zip[1]
    /\ << "audio/", "0", "1", "0", "0", ".wav" >> \in DOMAIN zip[1]

\* script.json, story.txt and both folders, a folder being empty when the
\* list behind it is
BundleOf(entries, imgs, clips) ==
    /\ { << "script.json" >>, << "story.txt" >>, << "images/" >>, << "audio/" >> }
         \subseteq DOMAIN entries
    /\ entries[<< "images/" >>] = Folder
    /\ entries[<< "audio/" >>] = Folder
    /\ imgs = << >> => FilesIn(entries, "images/") = { }
    /\ clips = << >> => FilesIn(entries, "audio/") = { }

\* C19: whatever the image list and the audio list hold, empty lists
\* included, the step of handleDownloadZip that builds the zip of a stored
\* script clears the error and puts script.json, story.txt, the images folder
\* and the audio folder in it, a folder of an empty list holding no file; when
\* the archive is generated the download carries these entries and no error
\* is set.
C19_EmptyListsTolerated ==
    /\ [][ (pc = "idle" /\ pc' = "zipping")
             => /\ error' = NoError
                /\ zip' # Null
                /\ BundleOf(zip'[1], generatedImages, generatedAudio) ]_vars
    /\ [][ ZipGenerated
             => /\ error' = NoError
                /\ download' # Null
                /\ BundleOf(download'[1].files, generatedImages, generatedAudio) ]_vars

\* a script bundled with no image and no clip stored
C19_Witness ==
    /\ download # Null
    /\ scriptData # Null
    /\ generatedImages = << >>
    /\ generatedAudio = << >>
    /\ error = NoError
    /\ FilesIn(download[1].files, "images/") = { }
    /\ << "audio/" >> \in DOMAIN download[1].files

\* the images index Action elements with content of sc, the clips dialogue
\* blocks of sc of the clip's character
IndexesInto(sc, imgs, clips) ==
    /\ \A k \in 1..Len(imgs) :
          /\ imgs[k].sceneIndex \in 0..(Len(sc) - 1)
          /\ sc[imgs[k].sceneIndex + 1].type = "action"
          /\ sc[imgs[k].sceneIndex + 1].content # ""
    /\ \A k \in 1..Len(clips) :
          /\ clips[k].sceneIndex \in 0..(Len(sc) - 1)
          /\ sc[clips[k].sceneIndex + 1].type = "dialogue_block"
          /\ sc[clips[k].sceneIndex + 1].character = clips[k].character

\* C21: the sceneIndex of every image, stored or being collected, is the
\* position in the script's scene_elements of an Action element with content,
\* and the sceneIndex of every clip is the position of a DialogueBlock whose
\* character is the clip's character.
C21_SceneIndexIsPosition ==
    /\ scriptData # Null =>
         IndexesInto(scriptData[1], generatedImages, generatedAudio)
    /\ pc \in { "prompt", "image", "speech" } =>
         IndexesInto(script, images, audioClips)

\* an image and a clip stored whose positions in the script differ from
\* their positions in the filtered lists
C21_Witness ==
    /\ pc = "idle"
    /\ scriptData # Null
    /\ Len(generatedImages) >= 1
    /\ Len(generatedAudio) >= 1
    /\ generatedImages[1].sceneIndex >= 1
    /\ generatedAudio[1].sceneIndex >= 1

RECURSIVE IncrementalFrom(_, _, _)
\* one pass over the script from element k on, the current speaker carried
\* along and replaced at each DialogueBlock: the (sceneIndex, speaker) pairs
\* of the Actions with content
IncrementalFrom(sc, k, speaker) ==
    IF k > Len(sc) THEN << >>
    ELSE IF sc[k].type = "dialogue_block"
         THEN IncrementalFrom(sc, k + 1, sc[k].character)
         ELSE IF sc[k].type = "action" /\ sc[k].content # ""
              THEN << [ sceneIndex |-> k - 1, speaker |-> speaker ] >>
                     \o IncrementalFrom(sc, k + 1, speaker)
              ELSE IncrementalFrom(sc, k + 1, speaker)

IncrementalPass(sc) == IncrementalFrom(sc, 1, "A character")

\* the (sceneIndex, speaker) pairs the run has asked image prompts for
PromptedSpeakers ==
    LET at == SelectSeq([ k \in 1..Len(requests) |-> k ],
                        LAMBDA k : requests[k].kind = "prompt")
    IN  [ j \in 1..Len(at) |-> [ sceneIndex |-> requests[at[j]].sceneIndex,
                                 speaker |-> requests[at[j]].character ] ]

\* C22: the (sceneIndex, speaker) pairs handleGenerate computes by rescanning
\* the prefix of every Action are, as far as the run has come, the pairs of
\* one incremental pass over the script, and all of them once the run has
\* ended without error.
C22_RescanIsIncremental ==
    (scriptData # Null /\ requests # << >>) =>
      LET pass == IncrementalPass(scriptData[1])
          asked == PromptedSpeakers
      IN  /\ Len(asked) <= Len(pass)
          /\ asked = SubSeq(pass, 1, Len(asked))
          /\ (pc = "idle" /\ error = NoError) => asked = pass

\* a finished run with two Actions behind one DialogueBlock, nothing spoken
\* between them: the second Action has the carried speaker
C22_Witness ==
    /\ pc = "idle"
    /\ error = NoError
    /\ scriptData # Null
    /\ Len(PromptedSpeakers) = 2
    /\ PromptedSpeakers[1].speaker = "REX"
    /\ PromptedSpeakers[2].speaker = "REX"
    /\ Cardinality({ k \in 1..Len(scriptData[1]) :
                       scriptData[1][k].type = "dialogue_block" }) = 1

\* C23: the assignment of one dialogue block leaves both cursors alone when
\* the block's character has a voice already; otherwise it gives the
\* character a voice and advances by one the cursor of the pool that voice
\* is from, the cursor of the other pool staying as it was.
C23_OnlyUsedCursorAdvances ==
    [][ \A c \in Characters :
          VAssign(c) =>
            IF c \in DOMAIN characterVoices
            THEN /\ maleVoiceIndex' = maleVoiceIndex
                 /\ femaleVoiceIndex' = femaleVoiceIndex
            ELSE /\ c \in DOMAIN characterVoices'
                 /\ characterVoices'[c] \in Range(FEMALE_VOICES) =>
                      /\ femaleVoiceIndex' = femaleVoiceIndex + 1
                      /\ maleVoiceIndex' = maleVoiceIndex
                 /\ characterVoices'[c] \in Range(MALE_VOICES) =>
                      /\ maleVoiceIndex' = maleVoiceIndex + 1
                      /\ femaleVoiceIndex' = femaleVoiceIndex
                 /\ characterVoices'[c] \in Range(FEMALE_VOICES) \cup Range(MALE_VOICES)
      ]_vars

\* both pools used, the female pool last, and a character's second block
\* taken after it
C23_Witness ==
    /\ pc = "assigning"
    /\ Len(vBlocks) >= 4
    /\ maleVoiceIndex = 2
    /\ femaleVoiceIndex = 1
    /\ Get(characterVoices, vBlocks[3]) = "Kore"
    /\ vBlocks[4] = vBlocks[1]

\* the names of a block list that the table gives a voice of the pool
FromPool(pool) == { c \in Range(vBlocks) : Get(characterVoices, c) \in Range(pool) }

\* C24: in every run of a session the voice table holds the names of this
\* run's dialogue blocks and no other, the gender cache no name of another
\* run, each cursor counts the names this run gave a voice of its pool, and
\* the character of the run's first block has the first voice of its pool;
\* before the first block of a run the table and the cache are empty and
\* both cursors are 0.
C24_FreshPerRun ==
    pc = "assigning" =>
      /\ DOMAIN characterVoices = Range(vBlocks)
      /\ DOMAIN assignedGenders \subseteq Range(vBlocks)
      /\ maleVoiceIndex = Cardinality(FromPool(MALE_VOICES))
      /\ femaleVoiceIndex = Cardinality(FromPool(FEMALE_VOICES))
      /\ vBlocks # << >> =>
           characterVoices[vBlocks[1]] \in { MALE_VOICES[1], FEMALE_VOICES[1] }
      /\ vBlocks = << >> =>
           /\ characterVoices = EmptyMap
           /\ assignedGenders = EmptyMap

\* a second run whose first character has the first male voice although the
\* run before had advanced both cursors
C24_Witness ==
    /\ pc = "assigning"
    /\ vEarlier # Null
    /\ vEarlier[1].maleVoiceIndex >= 2
    /\ vEarlier[1].femaleVoiceIndex >= 1
    /\ Len(vBlocks) >= 2
    /\ characterVoices[vBlocks[1]] = "Puck"
    /\ maleVoiceIndex = 1

\* C25: the PCM buffer decode hands to pcmToWav has an even number of bytes,
\* whatever base64 payload the speech call returned.
C25_EvenPcmLength ==
    wavPcm # Null => wavPcm[1] % 2 = 0

\* C26: the stored image list is empty while the script and the images are
\* being generated and after an image call failed, however many images the
\* run had collected; when it is not empty it holds the images of all the
\* script's Actions with content.
C26_NoPartialImages ==
    /\ pc \in { "story", "prompt", "image" } => generatedImages = << >>
    /\ IsImageError(error) => generatedImages = << >>
    /\ (scriptData # Null /\ generatedImages # << >>) =>
         Len(generatedImages) = Cardinality(ActionsOf(scriptData[1]))

\* a run ended by the failure of its third image call: two images had been
\* generated, none is stored
C26_Witness ==
    /\ pc = "idle"
    /\ IsImageError(error)
    /\ Cardinality({ k \in 1..Len(requests) : requests[k].kind = "image" }) = 3
    /\ requests[Len(requests)].sceneIndex = 2
    /\ generatedImages = << >>

\* C27: a call of handleGenerate with an idea that is empty or blank, or
\* with no premise loaded, sets the matching error message and nothing else:
\* no request is issued, no handler is left running, and isProcessing, the
\* status message, the stored script, images and audio stay as they were.
C27_RejectedGenerate ==
    [][ (Generate /\ (Trim(userInput) = "" \/ storyElements = Null)) =>
          /\ error' = IF Trim(userInput) = "" THEN IdeaMissing ELSE PremiseMissing
          /\ requests' = requests
          /\ outstanding' = outstanding
          /\ pc' = "idle"
          /\ isProcessing' = isProcessing
          /\ statusMessage' = statusMessage
          /\ scriptData' = scriptData
          /\ generatedImages' = generatedImages
          /\ generatedAudio' = generatedAudio ]_vars

\* a blank idea rejected while the script, an image and a clip of the run
\* before are stored
C27_Witness ==
    /\ error = IdeaMissing
    /\ Trim(userInput) = ""
    /\ pc = "idle"
    /\ isProcessing = FALSE
    /\ scriptData # Null
    /\ generatedImages # << >>
    /\ generatedAudio # << >>
    /\ outstanding = {}

\* C28: whenever no handler is running isProcessing is false and the status
\* message is empty, and every handler run that waits for an external call
\* (a premise fetch, a generation, a bundle download, an upload) comes to its
\* end, on whichever path the calls succeed or fail.
C28_HandlersEnd ==
    /\ [](pc = "idle" => (isProcessing = FALSE /\ statusMessage = NoStatus))
    /\ (pc # "idle") ~> (pc = "idle" /\ isProcessing = FALSE
                           /\ statusMessage = NoStatus)

\* all four handlers have run to their end: a premise is loaded, a reference
\* image stored, clips generated and the bundle handed over
C28_Witness ==
    /\ pc = "idle"
    /\ isProcessing = FALSE
    /\ statusMessage = NoStatus
    /\ storyElements # Null
    /\ "ursula" \in DOMAIN characterImages
    /\ generatedAudio # << >>
    /\ download # Null

=============================================================================
